---- MODULE Spec2Model ----
(***************************************************************************)
(* Model of conllx-rs: the pseudo-projective transformation (proj.rs) and  *)
(* the graph machinery it uses (graph.rs, petgraph's Graph and Bfs); the   *)
(* codec of the tabular format (writer.rs, reader.rs, Display in token.rs),*)
(* the equality of Features (features.rs) and the walker BfsWithDepth of   *)
(* graph.rs on graphs of its own.  Each of the four has its own            *)
(* specification over the one list of variables: Spec, SpecIO,             *)
(* SpecFeatures and SpecBfs.                                               *)
(*                                                                         *)
(* Representation.                                                         *)
(*  - Option<T> is a set with at most one element: None = {}, Some(x)={x}. *)
(*  - A Rust String is the non-empty sequence of its '|'-separated pieces: *)
(*    "AuxP|Sb" is <<"AuxP","Sb">>, "ROOT" is <<"ROOT">>.                  *)
(*    format!("{}|{}", a, b) is a \o b, find('|') succeeds iff the         *)
(*    sequence has more than one piece, s[..idx] is <<Head(s)>> and        *)
(*    s[idx+1..] is Tail(s).                                               *)
(*  - A petgraph Graph<(), String, Directed> is [node_count, edges] where  *)
(*    edges lists the live edges in the order add_edge created them.       *)
(*    petgraph threads every new edge at the front of the adjacency lists  *)
(*    of its endpoints and remove_edge unlinks without reordering, so the  *)
(*    neighbours of a node are its edges from the newest to the oldest.    *)
(*    Edge indices (which swap_remove renumbers) are not observable by the *)
(*    code modelled here, every node having at most one incoming edge.     *)
(*  - A text is the sequence of its lines and a line the sequence of its   *)
(*    tab-separated fields, each field a String as above.                  *)
(***************************************************************************)
EXTENDS Integers, Sequences, FiniteSets, TLC

\* ------------------------------------------------------------------ bounds
\* Longest dependency tree with pairwise distinct head labels.
MaxLen == 4
\* Longest dependency tree with head labels drawn from Atoms (labels repeat).
MaxDupLen == 3
\* Longest sentence with heads and labels absent or present, tree or not.
MaxAnyLen == 2
\* The history of lifts is kept for at most MaxLifts lifts: on an input whose
\* head relation has a cycle the loop of projectivize need not end.
MaxLifts == 16
\* Most writers a PartitioningWriter is made over.
MaxWriters == 2
\* Most sentences a caller writes.
MaxWrites == 3
\* Most lines of a source that was not written by a Writer.
MaxLines == 5
\* Most '|'-separated pieces of a raw features string that is compared.
MaxPieces == 2
\* Most edges of a graph that is walked by a BfsWithDepth of its own.
MaxBfsEdges == 3
\* The number of nodes of such a graph: the nodes 0..BfsNodes-1.
BfsNodes == 3

\* ------------------------------------------------------------- primitives
None == {}
Some(x) == {x}
Unwrap(o) == CHOOSE x \in o : TRUE

Atoms == {"a", "b"}

\* Pairwise distinct labels, one per sentence position.
LabelNames == <<"l1", "l2", "l3", "l4", "l5", "l6">>

Min(a, b) == IF a < b THEN a ELSE b
Max(a, b) == IF a < b THEN b ELSE a
Dist(a, b) == Max(a, b) - Min(a, b)

SetMax(S) == CHOOSE x \in S : \A y \in S : y <= x

Range(s) == {s[i] : i \in 1..Len(s)}

Reverse(s) == [i \in 1..Len(s) |-> s[Len(s) + 1 - i]]

\* Mutant of RemoveAt: the element before position i is removed (the first
\* one when i is 1).
RemoveAt_before(s, i) ==
    IF i = 1 THEN Tail(s) ELSE SubSeq(s, 1, i - 2) \o SubSeq(s, i, Len(s))

\* Vec::remove(i), positions counted from 1.
RemoveAt(s, i) == SubSeq(s, 1, i - 1) \o SubSeq(s, i + 1, Len(s))

\* ----------------------------------------------------------------- tokens
\* Token::new(): every field absent.
Token_new ==
    [form |-> None, lemma |-> None, cpos |-> None, pos |-> None, features |-> None,
     head |-> None, head_rel |-> None, p_head |-> None, p_head_rel |-> None]

\* The Features struct of a raw features string.
Features(s) == [features |-> s]

\* TokenBuilder::new().form(form).head(..).head_rel(..).token(), the head and
\* the head label given as Options.
Token(form, head, head_rel) ==
    [Token_new EXCEPT !.form = Some(<<form>>), !.head = head, !.head_rel = head_rel]

set_head(token, head) == [token EXCEPT !.head = head]

set_head_rel(token, head_rel) == [token EXCEPT !.head_rel = head_rel]

\* --------------------------------------------------------- petgraph Graph
EmptyGraph == [node_count |-> 0, edges |-> <<>>]

Edge(source, target, weight) == [source |-> source, target |-> target, weight |-> weight]

\* Graph::from_edges: nodes are created up to the largest index mentioned.
from_edges(edges) ==
    [node_count |-> IF edges = <<>> THEN 0
                    ELSE 1 + SetMax({e.source : e \in Range(edges)} \cup {e.target : e \in Range(edges)}),
     edges |-> edges]

add_edge(graph, source, target, weight) ==
    [graph EXCEPT !.edges = Append(@, Edge(source, target, weight))]

remove_edge(graph, edge) ==
    [graph EXCEPT !.edges = SelectSeq(@, LAMBDA e : e # edge)]

\* graph.edges(node): outgoing edges, newest first.
edges_of(graph, node) == Reverse(SelectSeq(graph.edges, LAMBDA e : e.source = node))

\* graph.first_edge(node, Incoming), as an Option.
first_edge_incoming(graph, node) ==
    LET inc == Reverse(SelectSeq(graph.edges, LAMBDA e : e.target = node))
    IN  IF inc = <<>> THEN None ELSE Some(inc[1])

\* graph.neighbors(node): targets of the outgoing edges, newest first.
neighbors(graph, node) ==
    LET out == edges_of(graph, node) IN [i \in 1..Len(out) |-> out[i].target]

\* Mutant of filtered_neighbors: the view hides no node.
filtered_neighbors_all(graph, excluded, node) == neighbors(graph, node)

\* NodeFiltered::from_fn(graph, |n| n != excluded).neighbors(node)
filtered_neighbors(graph, excluded, node) ==
    IF node = excluded THEN <<>>
    ELSE SelectSeq(neighbors(graph, node), LAMBDA n : n # excluded)

\* petgraph::visit::Bfs: the nodes in the order Bfs::next returns them.
\* Bfs::next pops the front of the queue and pushes every successor that
\* discovered.visit() had not seen yet at the back.
RECURSIVE BfsVisit(_, _, _)
BfsVisit(succs, stack, discovered) ==
    IF succs = <<>> THEN [stack |-> stack, discovered |-> discovered]
    ELSE IF Head(succs) \in discovered THEN BfsVisit(Tail(succs), stack, discovered)
    ELSE BfsVisit(Tail(succs), Append(stack, Head(succs)), discovered \cup {Head(succs)})

RECURSIVE BfsWalk(_, _, _)
BfsWalk(graph, stack, discovered) ==
    IF stack = <<>> THEN <<>>
    ELSE LET node == Head(stack)
             after == BfsVisit(neighbors(graph, node), Tail(stack), discovered)
         IN  <<node>> \o BfsWalk(graph, after.stack, after.discovered)

\* Mutant of Bfs: the successors of the start node are visited, theirs are not.
Bfs_shallow(graph, start) ==
    <<start>> \o BfsVisit(neighbors(graph, start), <<>>, {start}).stack

Bfs(graph, start) == BfsWalk(graph, <<start>>, {start})

\* ------------------------------------------------------ graph.rs BfsWithDepth
\* The walker's fields.  nbrs is the neighbour function of the graph view the
\* walker is run on (IntoNeighbors), a function from node to sequence.
\* Mutant of BfsWithDepth_new: the start node is not marked as discovered.
BfsWithDepth_new_unmarked(start) ==
    [cur_stack |-> <<start>>, next_stack |-> <<>>, discovered |-> {}, depth |-> 0]

BfsWithDepth_new(start) ==
    [cur_stack |-> <<start>>, next_stack |-> <<>>, discovered |-> {start}, depth |-> 0]

\* BfsWithDepth::next: [item |-> Option<(node, depth)>, walker |-> the walker after the call]
BfsWithDepth_next(walker, nbrs) ==
    LET swapped == IF walker.cur_stack = <<>> /\ walker.next_stack # <<>>
                   THEN [walker EXCEPT !.cur_stack = walker.next_stack,
                                       !.next_stack = <<>>,
                                       !.depth = @ + 1]
                   ELSE walker
    IN  IF swapped.cur_stack = <<>> THEN [item |-> None, walker |-> swapped]
        ELSE LET node == Head(swapped.cur_stack)
                 after == BfsVisit(nbrs[node], swapped.next_stack, swapped.discovered)
             IN  [item |-> Some(<<node, swapped.depth>>),
                  walker |-> [swapped EXCEPT !.cur_stack = Tail(@),
                                             !.next_stack = after.stack,
                                             !.discovered = after.discovered]]

\* Walker::iter(..).collect(): the items until the first None.
RECURSIVE BfsWithDepth_iter(_, _)
BfsWithDepth_iter(walker, nbrs) ==
    LET r == BfsWithDepth_next(walker, nbrs)
    IN  IF r.item = None THEN <<>>
        ELSE <<Unwrap(r.item)>> \o BfsWithDepth_iter(r.walker, nbrs)

\* --------------------------------------------------------------- proj.rs
\* Result<Graph, GraphError> of sentence_to_graph: the first token (in sentence
\* order) with a head and no head label ends the loop with the error.
RECURSIVE sentence_edges(_, _, _)
sentence_edges(sentence, idx, edges) ==
    IF idx > Len(sentence) THEN [ok |-> TRUE, edges |-> edges]
    ELSE LET token == sentence[idx] IN
         IF token.head = None THEN sentence_edges(sentence, idx + 1, edges)
         ELSE IF token.head_rel = None
              THEN [ok |-> FALSE,
                    err |-> [kind |-> "IncompleteGraph", head |-> Unwrap(token.head), dependent |-> idx]]
              ELSE sentence_edges(sentence, idx + 1,
                                  Append(edges, Edge(Unwrap(token.head), idx, Unwrap(token.head_rel))))

\* Mutant of sentence_to_graph: a token with a head and no head label is
\* skipped like a token without a head.
sentence_to_graph_lenient(sentence) ==
    LET complete == SelectSeq([i \in 1..Len(sentence) |-> i],
                              LAMBDA i : sentence[i].head # None /\ sentence[i].head_rel # None)
    IN  [ok |-> TRUE,
         graph |-> from_edges([k \in 1..Len(complete) |->
                      Edge(Unwrap(sentence[complete[k]].head), complete[k],
                           Unwrap(sentence[complete[k]].head_rel))])]

sentence_to_graph(sentence) ==
    LET r == sentence_edges(sentence, 1, <<>>)
    IN  IF r.ok THEN [ok |-> TRUE, graph |-> from_edges(r.edges)] ELSE r

Span(edge) == Max(edge.source, edge.target) - Min(edge.source, edge.target)

\* Mutant of NonProjectiveFrom: the reachable set misses the start node i.
NonProjectiveFrom_nostart(graph, i) ==
    LET i_reachable == Range(Bfs(graph, i)) \ {i}
    IN  SelectSeq(edges_of(graph, i),
                  LAMBDA edge : \E j \in Min(i, edge.target)..(Max(i, edge.target) - 1) :
                                    j \notin i_reachable)

\* The body of the loop over i of non_projective_edges: the out-edges of i
\* (newest first) for which some j of min(i,k)..max(i,k)-1 is not reachable.
NonProjectiveFrom(graph, i) ==
    LET i_reachable == Range(Bfs(graph, i))
    IN  SelectSeq(edges_of(graph, i),
                  LAMBDA edge : \E j \in Min(i, edge.target)..(Max(i, edge.target) - 1) :
                                    j \notin i_reachable)

RECURSIVE NonProjectiveUpTo(_, _)
NonProjectiveUpTo(graph, i) ==
    IF i >= graph.node_count THEN <<>>
    ELSE NonProjectiveFrom(graph, i) \o NonProjectiveUpTo(graph, i + 1)

\* Mutant of SortBySpan: an unstable sort, edges of equal span come out in the
\* reverse of their enumeration order.
RECURSIVE SortBySpan_unstable(_, _, _)
SortBySpan_unstable(edges, len, maxLen) ==
    IF len > maxLen THEN <<>>
    ELSE Reverse(SelectSeq(edges, LAMBDA e : Span(e) = len))
            \o SortBySpan_unstable(edges, len + 1, maxLen)

\* Vec::sort_by on the span: a stable sort.
RECURSIVE SortBySpan(_, _, _)
SortBySpan(edges, len, maxLen) ==
    IF len > maxLen THEN <<>>
    ELSE SelectSeq(edges, LAMBDA e : Span(e) = len) \o SortBySpan(edges, len + 1, maxLen)

\* Mutant of non_projective_edges: the list is returned as it was collected,
\* without the sort.
non_projective_edges_unsorted(graph) == NonProjectiveUpTo(graph, 0)

\* Mutant of non_projective_edges: the range i..target is empty for an edge
\* that points to the left, so only edges to the right are examined.
non_projective_edges_rightward(graph) ==
    SortBySpan(SelectSeq(NonProjectiveUpTo(graph, 0), LAMBDA e : e.source < e.target),
               0, graph.node_count)

non_projective_edges(graph) ==
    SortBySpan(NonProjectiveUpTo(graph, 0), 0, graph.node_count)

\* The edges written into sent one after the other: head and head label of
\* each edge's target are overwritten.
RECURSIVE update_edges(_, _)
update_edges(edges, sent) ==
    IF edges = <<>> THEN sent
    ELSE LET e == Head(edges)
         IN  update_edges(Tail(edges),
                 [sent EXCEPT ![e.target] = set_head_rel(set_head(@, Some(e.source)), Some(e.weight))])

\* Mutant of update_sentence: the head label of a token that is no edge's
\* target is cut before its first '|'.
update_sentence_cut(graph, sent) ==
    LET updated == update_edges(graph.edges, sent)
    IN  [i \in 1..Len(sent) |->
            IF (\A k \in 1..Len(graph.edges) : graph.edges[k].target # i) /\ sent[i].head_rel # None
            THEN set_head_rel(updated[i], Some(<<Head(Unwrap(sent[i].head_rel))>>))
            ELSE updated[i]]

\* Mutant of update_sentence: the head is written back, the head label is not.
update_sentence_heads(graph, sent) ==
    [i \in 1..Len(sent) |->
        IF \E k \in 1..Len(graph.edges) : graph.edges[k].target = i
        THEN set_head(sent[i],
                 Some(graph.edges[CHOOSE k \in 1..Len(graph.edges) : graph.edges[k].target = i].source))
        ELSE sent[i]]

\* Mutant of update_sentence: the token of every edge's target is built anew
\* from its form, the head and the head label.
update_sentence_rebuilt(graph, sent) ==
    [i \in 1..Len(sent) |->
        IF \E k \in 1..Len(graph.edges) : graph.edges[k].target = i
        THEN LET e == graph.edges[CHOOSE k \in 1..Len(graph.edges) : graph.edges[k].target = i]
             IN  [Token_new EXCEPT !.form = sent[i].form,
                                   !.head = Some(e.source), !.head_rel = Some(e.weight)]
        ELSE sent[i]]

\* update_sentence: a clone of sent with head and head label of every edge's
\* target overwritten.
update_sentence(graph, sent) == update_edges(graph.edges, sent)

\* Mutant of lift: the lifted edge is not removed.
lift_keep(graph, lifted, edge) ==
    LET parent_edge == first_edge_incoming(graph, edge.source)
    IN  IF parent_edge = None
        THEN [panic |-> TRUE, msg |-> "Cannot find incoming edge of the to-be lifted node"]
        ELSE [panic |-> FALSE,
              graph |-> add_edge(graph, Unwrap(parent_edge).source, edge.target,
                                 IF edge.target \in lifted THEN edge.weight
                                 ELSE edge.weight \o Unwrap(parent_edge).weight),
              lifted |-> lifted \cup {edge.target}]

\* Mutant of lift: the edge is attached to the target of the parent edge (the
\* head itself) instead of its source.
lift_to_source(graph, lifted, edge) ==
    LET parent_edge == first_edge_incoming(graph, edge.source)
    IN  IF parent_edge = None
        THEN [panic |-> TRUE, msg |-> "Cannot find incoming edge of the to-be lifted node"]
        ELSE [panic |-> FALSE,
              graph |-> add_edge(remove_edge(graph, edge), Unwrap(parent_edge).target, edge.target,
                                 IF edge.target \in lifted THEN edge.weight
                                 ELSE edge.weight \o Unwrap(parent_edge).weight),
              lifted |-> lifted \cup {edge.target}]

\* Mutant of lift: the label of the parent is appended on every lift.
lift_always_append(graph, lifted, edge) ==
    LET parent_edge == first_edge_incoming(graph, edge.source)
    IN  IF parent_edge = None
        THEN [panic |-> TRUE, msg |-> "Cannot find incoming edge of the to-be lifted node"]
        ELSE [panic |-> FALSE,
              graph |-> add_edge(remove_edge(graph, edge), Unwrap(parent_edge).source, edge.target,
                                 edge.weight \o Unwrap(parent_edge).weight),
              lifted |-> lifted \cup {edge.target}]

\* Mutant of lift: an edge whose source has no incoming edge is left alone.
lift_silent(graph, lifted, edge) ==
    LET parent_edge == first_edge_incoming(graph, edge.source)
    IN  IF parent_edge = None
        THEN [panic |-> FALSE, graph |-> graph, lifted |-> lifted]
        ELSE [panic |-> FALSE,
              graph |-> add_edge(remove_edge(graph, edge), Unwrap(parent_edge).source, edge.target,
                                 IF edge.target \in lifted THEN edge.weight
                                 ELSE edge.weight \o Unwrap(parent_edge).weight),
              lifted |-> lifted \cup {edge.target}]

\* Mutant of lift: on the first lift of the target only the part of the
\* parent's label before its first '|' is appended.
lift_parent_prefix(graph, lifted, edge) ==
    LET parent_edge == first_edge_incoming(graph, edge.source)
    IN  IF parent_edge = None
        THEN [panic |-> TRUE, msg |-> "Cannot find incoming edge of the to-be lifted node"]
        ELSE [panic |-> FALSE,
              graph |-> add_edge(remove_edge(graph, edge), Unwrap(parent_edge).source, edge.target,
                                 IF edge.target \in lifted THEN edge.weight
                                 ELSE edge.weight \o <<Head(Unwrap(parent_edge).weight)>>),
              lifted |-> lifted \cup {edge.target}]

\* Mutant of lift: the new edge is added from the target to the parent.
lift_reversed(graph, lifted, edge) ==
    LET parent_edge == first_edge_incoming(graph, edge.source)
    IN  IF parent_edge = None
        THEN [panic |-> TRUE, msg |-> "Cannot find incoming edge of the to-be lifted node"]
        ELSE [panic |-> FALSE,
              graph |-> add_edge(remove_edge(graph, edge), edge.target, Unwrap(parent_edge).source,
                                 IF edge.target \in lifted THEN edge.weight
                                 ELSE edge.weight \o Unwrap(parent_edge).weight),
              lifted |-> lifted \cup {edge.target}]

\* lift: [panic |-> FALSE, graph, lifted] or, when the source of the edge has
\* no incoming edge, the panic of the expect() on first_edge.
lift(graph, lifted, edge) ==
    LET source == edge.source
        target == edge.target
        parent_edge == first_edge_incoming(graph, source)
    IN  IF parent_edge = None
        THEN [panic |-> TRUE, msg |-> "Cannot find incoming edge of the to-be lifted node"]
        ELSE LET parent_rel == Unwrap(parent_edge).weight
                 parent == Unwrap(parent_edge).source
                 rel == edge.weight
                 removed == remove_edge(graph, edge)
             IN  IF target \in lifted
                 THEN [panic |-> FALSE,
                       graph |-> add_edge(removed, parent, target, rel),
                       lifted |-> lifted]
                 ELSE [panic |-> FALSE,
                       graph |-> add_edge(removed, parent, target, rel \o parent_rel),
                       lifted |-> lifted \cup {target}]

\* Mutant of prepare_deproj: the part before the '|' is recorded as the
\* preferred head label.
prepare_deproj_prefix(graph) ==
    LET encoded == {e \in Range(graph.edges) : Len(e.weight) > 1}
        dep(n) == CHOOSE e \in encoded : e.target = n
    IN  [graph |-> [graph EXCEPT !.edges =
                        [i \in 1..Len(graph.edges) |->
                            [graph.edges[i] EXCEPT !.weight = <<Head(@)>>]]],
         head_labels |-> [n \in {e.target : e \in encoded} |-> <<Head(dep(n).weight)>>]]

\* Mutant of prepare_deproj: an edge without '|' is recorded too, with its
\* whole label as the preferred head label.
prepare_deproj_all(graph) ==
    LET all == Range(graph.edges)
        dep(n) == CHOOSE e \in all : e.target = n
    IN  [graph |-> [graph EXCEPT !.edges =
                        [i \in 1..Len(graph.edges) |->
                            [graph.edges[i] EXCEPT !.weight = <<Head(@)>>]]],
         head_labels |-> [n \in {e.target : e \in all} |->
                            IF Len(dep(n).weight) > 1 THEN Tail(dep(n).weight)
                            ELSE dep(n).weight]]

\* Mutant of prepare_deproj: the preferred head labels are recorded, the labels
\* of the edges are left as they are.
prepare_deproj_encoded(graph) ==
    LET encoded == {e \in Range(graph.edges) : Len(e.weight) > 1}
        dep(n) == CHOOSE e \in encoded : e.target = n
    IN  [graph |-> graph,
         head_labels |-> [n \in {e.target : e \in encoded} |-> Tail(dep(n).weight)]]

\* prepare_deproj: the graph with every label cut before its first '|', and the
\* map from the target of every such edge to the rest of the label.
prepare_deproj(graph) ==
    LET encoded == {e \in Range(graph.edges) : Len(e.weight) > 1}
        dep(n) == CHOOSE e \in encoded : e.target = n
    IN  [graph |-> [graph EXCEPT !.edges =
                        [i \in 1..Len(graph.edges) |->
                            [graph.edges[i] EXCEPT !.weight = <<Head(@)>>]]],
         head_labels |-> [n \in {e.target : e \in encoded} |-> Tail(dep(n).weight)]]

\* The consecutive items of a (node, depth) sequence that share the depth of
\* the first one (one group of group_by), and the items after them.
RECURSIVE GroupLen(_, _)
GroupLen(items, depth) ==
    IF items = <<>> \/ Head(items)[2] # depth THEN 0
    ELSE 1 + GroupLen(Tail(items), depth)

\* Mutant of MinByDist: the last of the elements with the least key.
MinByDist_last(nodes, cur_head) ==
    IF nodes = <<>> THEN None
    ELSE LET best == CHOOSE i \in 1..Len(nodes) :
                        /\ \A k \in 1..Len(nodes) : Dist(nodes[i], cur_head) <= Dist(nodes[k], cur_head)
                        /\ \A k \in (i + 1)..Len(nodes) : Dist(nodes[k], cur_head) > Dist(nodes[i], cur_head)
         IN  Some(nodes[best])

\* min_by_key: the first of the elements with the least key.
MinByDist(nodes, cur_head) ==
    IF nodes = <<>> THEN None
    ELSE LET best == CHOOSE i \in 1..Len(nodes) :
                        /\ \A k \in 1..Len(nodes) : Dist(nodes[i], cur_head) <= Dist(nodes[k], cur_head)
                        /\ \A k \in 1..(i - 1) : Dist(nodes[k], cur_head) > Dist(nodes[i], cur_head)
         IN  Some(nodes[best])

\* Mutant of SearchLevels: every node with an incoming edge is a candidate,
\* whatever the label of the edge.
RECURSIVE SearchLevels_any_label(_, _, _, _)
SearchLevels_any_label(graph, items, cur_head, pref_head_rel) ==
    IF items = <<>> THEN None
    ELSE LET n == GroupLen(items, Head(items)[2])
             nodes == [i \in 1..n |-> items[i][1]]
             level_candidates ==
                 SelectSeq(nodes, LAMBDA node : first_edge_incoming(graph, node) # None)
             min_candidate == MinByDist(level_candidates, cur_head)
         IN  IF min_candidate # None THEN min_candidate
             ELSE SearchLevels_any_label(graph, SubSeq(items, n + 1, Len(items)),
                                         cur_head, pref_head_rel)

\* The loop over the groups of equal depth of search_attachment_point: the
\* nodes of a group whose incoming edge has the preferred label are the
\* candidates, and the first group with a candidate decides.
RECURSIVE SearchLevels(_, _, _, _)
SearchLevels(graph, items, cur_head, pref_head_rel) ==
    IF items = <<>> THEN None
    ELSE LET n == GroupLen(items, Head(items)[2])
             nodes == [i \in 1..n |-> items[i][1]]
             level_candidates ==
                 SelectSeq(nodes, LAMBDA node :
                     LET edge == first_edge_incoming(graph, node)
                     IN  edge # None /\ Unwrap(edge).weight = pref_head_rel)
             min_candidate == MinByDist(level_candidates, cur_head)
         IN  IF min_candidate # None THEN min_candidate
             ELSE SearchLevels(graph, SubSeq(items, n + 1, Len(items)), cur_head, pref_head_rel)

\* search_attachment_point: Option<node>.  The walk starts at node_index(0) on
\* the view of the graph without lifted_node; skip(1) drops the start node.
search_attachment_point(graph, cur_head, lifted_node, pref_head_rel) ==
    LET graph_without_lifted ==
            [n \in 0..(graph.node_count - 1) |-> filtered_neighbors(graph, lifted_node, n)]
        walk == BfsWithDepth_iter(BfsWithDepth_new(0), graph_without_lifted)
    IN  SearchLevels(graph, Tail(walk), cur_head, pref_head_rel)

\* deprojectivize_next: [idx |-> Option<position in lifted_sorted>, graph |-> the graph after the call]
RECURSIVE deprojectivize_from(_, _, _, _)
deprojectivize_from(graph, lifted_sorted, head_labels, idx) ==
    IF idx > Len(lifted_sorted) THEN [idx |-> None, graph |-> graph]
    ELSE LET lifted_node == lifted_sorted[idx]
             pref_head_rel == head_labels[lifted_node]
             head_edge == Unwrap(first_edge_incoming(graph, lifted_node))
             cur_head == head_edge.source
             new_head == search_attachment_point(graph, cur_head, lifted_node, pref_head_rel)
         IN  IF new_head # None
             THEN [idx |-> Some(idx),
                   graph |-> add_edge(remove_edge(graph, head_edge),
                                      Unwrap(new_head), lifted_node, head_edge.weight)]
             ELSE deprojectivize_from(graph, lifted_sorted, head_labels, idx + 1)

deprojectivize_next(graph, lifted_sorted, head_labels) ==
    deprojectivize_from(graph, lifted_sorted, head_labels, 1)

\* ------------------------------------------------------------- the inputs
\* Labels without '|' and labels with one '|'.
PlainLabels == {<<x>> : x \in Atoms}
EncodedLabels == {<<x, y>> : x \in Atoms, y \in Atoms}

\* The token at position i, with the head and head label given.
\* At the odd positions the other fields are set too, at the even ones they
\* are absent.
TokenAt(i, head, head_rel) ==
    IF i % 2 = 1
    THEN [Token("w", head, head_rel) EXCEPT
            !.lemma = Some(<<"w">>), !.cpos = Some(<<"N">>), !.pos = Some(<<"NN">>),
            !.features = Some(Features(<<"nsf">>)),
            !.p_head = Some(0), !.p_head_rel = Some(<<"ROOT">>)]
    ELSE Token("w", head, head_rel)

\* Following heads from node i for at most fuel steps reaches node 0.
RECURSIVE ReachesRoot(_, _, _)
ReachesRoot(heads, i, fuel) ==
    IF i = 0 THEN TRUE
    ELSE IF fuel = 0 THEN FALSE
    ELSE ReachesRoot(heads, heads[i], fuel - 1)

\* The head functions over 1..n whose relation is a tree rooted at node 0.
TreeHeads(n) ==
    {heads \in [1..n -> 0..n] : \A i \in 1..n : ReachesRoot(heads, i, n)}

\* The sentence of n tokens with the heads and head labels given (Options).
MakeSentence(n, heads, rels) == [i \in 1..n |-> TokenAt(i, heads[i], rels[i])]

\* Heads and labels of any sentence of n tokens: present or absent, the label
\* with or without '|', the head relation a tree or not.
AnyHeads(n) == [1..n -> {None} \cup {Some(h) : h \in 0..n}]
AnyRels(n) == [1..n -> {None} \cup {Some(l) : l \in PlainLabels \cup EncodedLabels}]

\* s is a dependency tree rooted at node 0: every token has a head and a head
\* label, and following the heads from any token reaches node 0.
IsTree(s) ==
    /\ \A i \in 1..Len(s) : s[i].head # None /\ s[i].head_rel # None
    /\ \A i \in 1..Len(s) : Unwrap(s[i].head) \in 0..Len(s)
    /\ \A i \in 1..Len(s) : ReachesRoot([k \in 1..Len(s) |-> Unwrap(s[k].head)], i, Len(s))

\* No head label of s contains '|'.
NoSeparator(s) == \A i \in 1..Len(s) : s[i].head_rel # None => Len(Unwrap(s[i].head_rel)) = 1

\* The sentences of proj_tests.rs (forms in ASCII).
PROJECTIVE_SENTENCES ==
<<
    <<
        Token("Fuer", Some(4), Some(<<"PP", "OBJA">>)),
        Token("diese", Some(3), Some(<<"DET">>)),
        Token("Behauptung", Some(1), Some(<<"PN">>)),
        Token("hat", Some(0), Some(<<"ROOT">>)),
        Token("Beckmeyer", Some(4), Some(<<"SUBJ">>)),
        Token("bisher", Some(9), Some(<<"ADV">>)),
        Token("keinen", Some(8), Some(<<"DET">>)),
        Token("Nachweis", Some(9), Some(<<"OBJA">>)),
        Token("geliefert", Some(4), Some(<<"AUX">>)),
        Token(".", Some(9), Some(<<"-PUNCT-">>))
    >>,
    <<
        Token("Auch", Some(2), Some(<<"ADV">>)),
        Token("fuer", Some(5), Some(<<"PP", "PN">>)),
        Token("Rumaenien", Some(2), Some(<<"PN">>)),
        Token("selbst", Some(3), Some(<<"ADV">>)),
        Token("ist", Some(0), Some(<<"ROOT">>)),
        Token("der", Some(7), Some(<<"DET">>)),
        Token("Papst-Besuch", Some(5), Some(<<"SUBJ">>)),
        Token("von", Some(5), Some(<<"PRED">>)),
        Token("grosser", Some(10), Some(<<"ATTR">>)),
        Token("Bedeutung", Some(8), Some(<<"PN">>)),
        Token(".", Some(10), Some(<<"-PUNCT-">>))
    >>,
    <<
        Token("Z", Some(3), Some(<<"AuxP", "Sb">>)),
        Token("nich", Some(1), Some(<<"Atr">>)),
        Token("je", Some(0), Some(<<"ROOT">>)),
        Token("jen", Some(5), Some(<<"AuxZ">>)),
        Token("jedna", Some(3), Some(<<"Sb">>)),
        Token("na", Some(3), Some(<<"AuxP">>)),
        Token("kvalitu", Some(6), Some(<<"Adv">>)),
        Token(".", Some(3), Some(<<"AuxZ">>))
    >>,
    <<
        Token("a", Some(4), Some(<<"a">>)),
        Token("b", Some(4), Some(<<"b">>)),
        Token("c", Some(4), Some(<<"c", "a">>)),
        Token("d", Some(0), Some(<<"ROOT">>)),
        Token("e", Some(4), Some(<<"e", "g">>)),
        Token("f", Some(4), Some(<<"f">>)),
        Token("g", Some(4), Some(<<"g">>))
    >>
>>

NON_PROJECTIVE_SENTENCES ==
<<
    <<
        Token("Fuer", Some(8), Some(<<"PP">>)),
        Token("diese", Some(3), Some(<<"DET">>)),
        Token("Behauptung", Some(1), Some(<<"PN">>)),
        Token("hat", Some(0), Some(<<"ROOT">>)),
        Token("Beckmeyer", Some(4), Some(<<"SUBJ">>)),
        Token("bisher", Some(9), Some(<<"ADV">>)),
        Token("keinen", Some(8), Some(<<"DET">>)),
        Token("Nachweis", Some(9), Some(<<"OBJA">>)),
        Token("geliefert", Some(4), Some(<<"AUX">>)),
        Token(".", Some(9), Some(<<"-PUNCT-">>))
    >>,
    <<
        Token("Auch", Some(2), Some(<<"ADV">>)),
        Token("fuer", Some(10), Some(<<"PP">>)),
        Token("Rumaenien", Some(2), Some(<<"PN">>)),
        Token("selbst", Some(3), Some(<<"ADV">>)),
        Token("ist", Some(0), Some(<<"ROOT">>)),
        Token("der", Some(7), Some(<<"DET">>)),
        Token("Papst-Besuch", Some(5), Some(<<"SUBJ">>)),
        Token("von", Some(5), Some(<<"PRED">>)),
        Token("grosser", Some(10), Some(<<"ATTR">>)),
        Token("Bedeutung", Some(8), Some(<<"PN">>)),
        Token(".", Some(10), Some(<<"-PUNCT-">>))
    >>,
    <<
        Token("Z", Some(5), Some(<<"AuxP">>)),
        Token("nich", Some(1), Some(<<"Atr">>)),
        Token("je", Some(0), Some(<<"ROOT">>)),
        Token("jen", Some(5), Some(<<"AuxZ">>)),
        Token("jedna", Some(3), Some(<<"Sb">>)),
        Token("na", Some(3), Some(<<"AuxP">>)),
        Token("kvalitu", Some(6), Some(<<"Adv">>)),
        Token(".", Some(3), Some(<<"AuxZ">>))
    >>,
    <<
        Token("a", Some(4), Some(<<"a">>)),
        Token("b", Some(4), Some(<<"b">>)),
        Token("c", Some(1), Some(<<"c">>)),
        Token("d", Some(0), Some(<<"ROOT">>)),
        Token("e", Some(7), Some(<<"e">>)),
        Token("f", Some(4), Some(<<"f">>)),
        Token("g", Some(4), Some(<<"g">>))
    >>
>>

\* A projective tree with an encoded label whose preferred head label is
\* carried by a sibling of the parent and by no node below the parent.
SIBLING_SENTENCE ==
<<
    Token("a", Some(0), Some(<<"a">>)),
    Token("b", Some(0), Some(<<"b">>)),
    Token("c", Some(2), Some(<<"c", "a">>))
>>

\* A projective tree with an encoded label whose preferred head label is
\* carried by two nodes of the same depth, one position left and one position
\* right of the parent.
TIE_SENTENCE ==
<<
    Token("a", Some(2), Some(<<"a">>)),
    Token("b", Some(0), Some(<<"ROOT">>)),
    Token("c", Some(2), Some(<<"a">>)),
    Token("d", Some(2), Some(<<"d", "a">>))
>>

\* A sentence with three encoded labels: on a token whose preferred head label
\* is carried by its own child only, on that child, which prefers the label
\* of its parent, and on a token without a head.
HEADLESS_SENTENCE ==
<<
    Token("a", Some(0), Some(<<"a", "b">>)),
    Token("b", Some(1), Some(<<"b", "a">>)),
    Token("c", None, Some(<<"c", "a">>))
>>

\* ---------------------------------------------------------------- results
\* What a call returns: Ok(value), Err(error), or the panic that ends it.
NoResult == [kind |-> "none"]
Ok(s) == [kind |-> "Ok", sentence |-> s]
Err(e) == [kind |-> "Err", err |-> e]
Panic(msg) == [kind |-> "panic", msg |-> msg]

\* ------------------------------------------------ text, token.rs Display
\* A text (the bytes of a sink or of a source) is the non-empty sequence of its
\* lines, the line breaks taken out: "" is <<Blank>>, "x\n" is <<x, Blank>>.  A
\* line is the sequence of the fields its tabs separate, each field a String;
\* the line without a field is the blank line.
Blank == <<>>
EmptyText == <<Blank>>

\* "\n\n"
BlankLineBreak == <<Blank, Blank, Blank>>

\* The line made of the end of one text and the start of the next one.  Two
\* non-blank ends meet in no run of the model: every write but the first
\* starts with a line break.
LineConcat(a, b) ==
    IF a = Blank THEN b
    ELSE IF b = Blank THEN a
    ELSE SubSeq(a, 1, Len(a) - 1) \o <<a[Len(a)] \o b[1]>> \o Tail(b)

\* The text t followed by the text u.
AppendText(t, u) ==
    SubSeq(t, 1, Len(t) - 1) \o <<LineConcat(t[Len(t)], u[1])>> \o Tail(u)

EMPTY_TOKEN == <<"_">>

Digits == <<"0", "1", "2", "3", "4", "5", "6", "7", "8", "9">>

\* usize::to_string, for the numbers below ten.
to_string(n) == <<Digits[n + 1]>>

\* str::parse::<usize>, as an Option: the strings of one digit.
parse_usize(s) ==
    IF Len(s) = 1 /\ \E n \in 0..9 : Digits[n + 1] = s[1]
    THEN Some(CHOOSE n \in 0..9 : Digits[n + 1] = s[1])
    ELSE None

\* opt.unwrap_or(EMPTY_TOKEN)
unwrap_or_empty(opt) == IF opt = None THEN EMPTY_TOKEN ELSE Unwrap(opt)

as_str(features) == features.features

\* impl Display for Token: the nine columns after the identifier.  The last
\* two columns are both made from p_head.
Display_Token(token) ==
    LET head_str == IF token.head = None THEN None ELSE Some(to_string(Unwrap(token.head)))
        p_head_str == IF token.p_head = None THEN None ELSE Some(to_string(Unwrap(token.p_head)))
    IN  <<unwrap_or_empty(token.form),
          unwrap_or_empty(token.lemma),
          unwrap_or_empty(token.cpos),
          unwrap_or_empty(token.pos),
          IF token.features = None THEN EMPTY_TOKEN ELSE as_str(Unwrap(token.features)),
          unwrap_or_empty(head_str),
          unwrap_or_empty(token.head_rel),
          unwrap_or_empty(p_head_str),
          unwrap_or_empty(p_head_str)>>

\* impl Display for Sentence: one line per token, the identifier first, a line
\* break after every token but the last.  For a sentence without tokens
\* len() - 1 overflows: a panic where overflow is checked, and otherwise a
\* last_id no token has, so that nothing is printed.
Display_Sentence(sentence, overflow_checks) ==
    IF Len(sentence) = 0
    THEN [panic |-> overflow_checks, text |-> EmptyText]
    ELSE [panic |-> FALSE,
          text |-> [id \in 1..Len(sentence) |-> <<to_string(id)>> \o Display_Token(sentence[id])]]

\* --------------------------------------------------------------- writer.rs
\* Writer::new(write) over an empty sink.
Writer_new == [write |-> EmptyText, first |-> TRUE]

\* Mutant of Writer_write_sentence: the blank line is written before every
\* sentence, the first one too.
Writer_write_sentence_always_break(writer, sentence, io_ok, overflow_checks) ==
    LET shown == Display_Sentence(sentence, overflow_checks)
        started == [writer EXCEPT !.first = FALSE, !.write = AppendText(@, BlankLineBreak)]
    IN  IF ~io_ok THEN [writer |-> [writer EXCEPT !.first = FALSE], kind |-> "Err"]
        ELSE IF shown.panic THEN [writer |-> started, kind |-> "panic"]
        ELSE [writer |-> [started EXCEPT !.write = AppendText(@, shown.text)], kind |-> "Ok"]

\* Writer::write_sentence.  io_ok: the sink takes the bytes (when it does not,
\* it takes none and write! returns the error).  The flag first is cleared
\* before anything is written; "\n\n" is written before the sentence is
\* formatted, so that it is in the sink when the formatting panics.
Writer_write_sentence(writer, sentence, io_ok, overflow_checks) ==
    LET shown == Display_Sentence(sentence, overflow_checks)
        started == IF writer.first THEN [writer EXCEPT !.first = FALSE]
                   ELSE [writer EXCEPT !.write = AppendText(@, BlankLineBreak)]
    IN  IF ~io_ok THEN [writer |-> [writer EXCEPT !.first = FALSE], kind |-> "Err"]
        ELSE IF shown.panic THEN [writer |-> started, kind |-> "panic"]
        ELSE [writer |-> [started EXCEPT !.write = AppendText(@, shown.text)], kind |-> "Ok"]

\* Mutant of PartitioningWriter_write_sentence: fold is advanced before the
\* result of the write is looked at.
PartitioningWriter_write_sentence_eager(writers, fold, sentence, io_ok, overflow_checks) ==
    LET at == IF fold = Len(writers) THEN 0 ELSE fold
        r == Writer_write_sentence(writers[at + 1], sentence, io_ok, overflow_checks)
    IN  [writers |-> [writers EXCEPT ![at + 1] = r.writer],
         fold |-> at + 1,
         writer |-> at + 1,
         kind |-> r.kind]

\* PartitioningWriter::write_sentence: fold wraps around, writers[fold] writes
\* (writers is indexed from 1 here), and fold is advanced when the write
\* succeeded.  writer is the position of the writer that was called.
PartitioningWriter_write_sentence(writers, fold, sentence, io_ok, overflow_checks) ==
    LET at == IF fold = Len(writers) THEN 0 ELSE fold
        r == Writer_write_sentence(writers[at + 1], sentence, io_ok, overflow_checks)
    IN  [writers |-> [writers EXCEPT ![at + 1] = r.writer],
         fold |-> IF r.kind = "Ok" THEN at + 1 ELSE at,
         writer |-> at + 1,
         kind |-> r.kind]

\* --------------------------------------------------------------- reader.rs
\* Reader::new over a source holding text: the lines read_line will return.
\* The end of the text after its last line break is a line only when it is
\* not empty.
Reader_new(text) ==
    IF text[Len(text)] = Blank THEN SubSeq(text, 1, Len(text) - 1) ELSE text

\* iter.next() on the fields of a line: the k-th field, as an Option.
next_field(line, k) == IF k <= Len(line) THEN Some(line[k]) ELSE None

\* Ok(value) of the parsers of a field.
OkValue(v) == [kind |-> "Ok", value |-> v]

parse_identifier_field(field) ==
    IF field = None
    THEN Err([kind |-> "ParseIdentifierFieldError", value |-> <<"A token identifier should be present">>])
    ELSE IF Unwrap(field) = EMPTY_TOKEN
    THEN Err([kind |-> "ParseIdentifierFieldError", value |-> Unwrap(field)])
    ELSE IF parse_usize(Unwrap(field)) = None
    THEN Err([kind |-> "ParseIntFieldError", value |-> Unwrap(field)])
    ELSE OkValue(parse_usize(Unwrap(field)))

parse_form_field(field) ==
    IF field = None THEN Err([kind |-> "MissingFormFieldError"]) ELSE OkValue(Unwrap(field))

parse_string_field(field) ==
    IF field = None \/ field = Some(EMPTY_TOKEN) THEN None ELSE field

parse_numeric_field(field) ==
    IF field = None \/ field = Some(EMPTY_TOKEN) THEN OkValue(None)
    ELSE IF parse_usize(Unwrap(field)) = None
    THEN Err([kind |-> "ParseIntFieldError", value |-> Unwrap(field)])
    ELSE OkValue(parse_usize(Unwrap(field)))

\* The body of the loop of read_sentence for a line that is not blank: the
\* token of the line, or the first error of its fields.
parse_token(line) ==
    LET id == parse_identifier_field(next_field(line, 1))
        form == parse_form_field(next_field(line, 2))
        head == parse_numeric_field(next_field(line, 7))
        p_head == parse_numeric_field(next_field(line, 9))
        features == parse_string_field(next_field(line, 6))
    IN  IF id.kind = "Err" THEN id
        ELSE IF form.kind = "Err" THEN form
        ELSE IF head.kind = "Err" THEN head
        ELSE IF p_head.kind = "Err" THEN p_head
        ELSE OkValue([form |-> Some(form.value),
                 lemma |-> parse_string_field(next_field(line, 3)),
                 cpos |-> parse_string_field(next_field(line, 4)),
                 pos |-> parse_string_field(next_field(line, 5)),
                 features |-> IF features = None THEN None ELSE Some(Features(Unwrap(features))),
                 head |-> head.value,
                 head_rel |-> parse_string_field(next_field(line, 8)),
                 p_head |-> p_head.value,
                 p_head_rel |-> parse_string_field(next_field(line, 10))])

\* Mutant of read_lines: a blank line ends the sentence also when no token has
\* been read yet.
RECURSIVE read_lines_every_blank(_, _)
read_lines_every_blank(read, tokens) ==
    IF read = <<>>
    THEN [result |-> Ok(IF tokens = <<>> THEN None ELSE Some(tokens)), read |-> read]
    ELSE IF Head(read) = Blank
    THEN [result |-> Ok(Some(tokens)), read |-> Tail(read)]
    ELSE LET token == parse_token(Head(read))
         IN  IF token.kind = "Err" THEN [result |-> Err(token.err), read |-> Tail(read)]
             ELSE read_lines_every_blank(Tail(read), Append(tokens, token.value))

\* The loop of read_sentence from the lines left in the source and the tokens
\* read so far: what the call returns, and the lines left after it.
RECURSIVE read_lines(_, _)
read_lines(read, tokens) ==
    IF read = <<>>
    THEN [result |-> Ok(IF tokens = <<>> THEN None ELSE Some(tokens)), read |-> read]
    ELSE IF Head(read) = Blank
    THEN IF tokens = <<>> THEN read_lines(Tail(read), tokens)
         ELSE [result |-> Ok(Some(tokens)), read |-> Tail(read)]
    ELSE LET token == parse_token(Head(read))
         IN  IF token.kind = "Err" THEN [result |-> Err(token.err), read |-> Tail(read)]
             ELSE read_lines(Tail(read), Append(tokens, token.value))

\* Reader::read_sentence
read_sentence(read) == read_lines(read, <<>>)

\* ------------------------------------------------------------- features.rs
\* The pieces a raw features string is made of here, and str::split(':') on
\* each of them.
FeaturePieces == {"a", "b", "a:c", "b:c", "b:d"}

split_colon(piece) ==
    CASE piece = "a:c" -> <<"a", "c">>
      [] piece = "b:c" -> <<"b", "c">>
      [] piece = "b:d" -> <<"b", "d">>
      [] OTHER -> <<piece>>

\* BTreeMap::insert: the map with key bound to value, an earlier binding of
\* the key replaced.
insert(map, key, value) ==
    [k \in DOMAIN map \cup {key} |-> IF k = key THEN value ELSE map[k]]

\* The loop of as_map_eager over the pieces of the raw string: the key is the
\* part before the first ':', the value the part between the first ':' and
\* the second one, if any.
RECURSIVE insert_pieces(_, _)
insert_pieces(pieces, map) ==
    IF pieces = <<>> THEN map
    ELSE LET fv == split_colon(Head(pieces))
             k == fv[1]
             v == IF Len(fv) >= 2 THEN Some(fv[2]) ELSE None
         IN  insert_pieces(Tail(pieces), insert(map, k, v))

\* Features::as_map_eager (what as_map returns).
as_map_eager(features) == insert_pieces(features.features, <<>>)

\* impl PartialEq for Features: the raw strings are compared.
Features_eq(self, other) == self.features = other.features

\* ------------------------------------------------ the inputs of the codec
\* The sentences of tests.rs.
test_sentences == <<
    <<
        [form |-> Some(<<"Die">>), lemma |-> Some(<<"die">>), cpos |-> Some(<<"ART">>),
         pos |-> Some(<<"ART">>), features |-> Some(Features(<<"nsf">>)),
         head |-> Some(2), head_rel |-> Some(<<"DET">>), p_head |-> None, p_head_rel |-> None],
        [form |-> Some(<<"Grossaufnahme">>), lemma |-> Some(<<"Grossaufnahme">>), cpos |-> Some(<<"N">>),
         pos |-> Some(<<"NN">>), features |-> Some(Features(<<"nsf">>)),
         head |-> Some(0), head_rel |-> Some(<<"ROOT">>), p_head |-> None, p_head_rel |-> None]
    >>,
    <<
        [form |-> Some(<<"Gilles">>), lemma |-> Some(<<"Gilles">>), cpos |-> Some(<<"N">>),
         pos |-> Some(<<"NE">>), features |-> Some(Features(<<"nsm">>)),
         head |-> Some(0), head_rel |-> Some(<<"ROOT">>), p_head |-> None, p_head_rel |-> None],
        [form |-> Some(<<"Deleuze">>), lemma |-> Some(<<"Deleuze">>), cpos |-> Some(<<"N">>),
         pos |-> Some(<<"NE">>),
         features |-> Some(Features(<<"case:nominative", "number:singular", "gender:masculine">>)),
         head |-> Some(1), head_rel |-> Some(<<"APP">>), p_head |-> None, p_head_rel |-> None]
    >>
>>

\* The lines of TEST_FRAGMENT of tests.rs (eight columns), and the line of
\* the test reader_rejects_non_numeric_id.
TEST_FRAGMENT == <<
    <<<<"1">>, <<"Die">>, <<"die">>, <<"ART">>, <<"ART">>, <<"nsf">>, <<"2">>, <<"DET">>>>,
    <<<<"2">>, <<"Grossaufnahme">>, <<"Grossaufnahme">>, <<"N">>, <<"NN">>, <<"nsf">>, <<"0">>, <<"ROOT">>>>,
    Blank,
    <<<<"1">>, <<"Gilles">>, <<"Gilles">>, <<"N">>, <<"NE">>, <<"nsm">>, <<"0">>, <<"ROOT">>>>,
    <<<<"2">>, <<"Deleuze">>, <<"Deleuze">>, <<"N">>, <<"NE">>,
      <<"case:nominative", "number:singular", "gender:masculine">>, <<"1">>, <<"APP">>>>
>>

NonNumericId == <<<<"test">>>>

\* The lines a source is made of: blank, two lines of TEST_FRAGMENT, and the
\* line with the identifier that is not a number.
SourceLines == {Blank, TEST_FRAGMENT[1], TEST_FRAGMENT[2], NonNumericId}

\* The sentences a caller writes several of: none of the tokens, the two of
\* tests.rs, and one token with nothing but a form.
WrittenSentences ==
    {<<>>, test_sentences[1], test_sentences[2], <<[Token_new EXCEPT !.form = Some(<<"w">>)]>>}

\* The tokens with a form and each other field absent or present.
FieldTokens ==
    {[form |-> Some(<<"w">>), lemma |-> lemma, cpos |-> cpos, pos |-> pos, features |-> features,
      head |-> head, head_rel |-> head_rel, p_head |-> p_head, p_head_rel |-> p_head_rel] :
        lemma \in {None, Some(<<"l">>)}, cpos \in {None, Some(<<"N">>)},
        pos \in {None, Some(<<"NN">>)}, features \in {None, Some(Features(<<"a", "b:c">>))},
        head \in {None, Some(2)}, head_rel \in {None, Some(<<"DET">>)},
        p_head \in {None, Some(3)}, p_head_rel \in {None, Some(<<"APP">>)}}

\* The sequences of length n over the set S.
SeqsOfLen(S, n) == [1..n -> S]

\* ------------------------------------------------ the inputs of the walker
\* Graph::new() with n nodes added, then the edges added in order (weight 0).
graph_with(n, pairs) ==
    [node_count |-> n,
     edges |-> [k \in 1..Len(pairs) |-> Edge(pairs[k][1], pairs[k][2], 0)]]

\* GRAPH_DEPTH_4 of graph_tests.rs and the visits its test expects.
GRAPH_DEPTH_4 ==
    from_edges([k \in 1..8 |->
        LET pairs == <<<<0, 1>>, <<0, 2>>, <<0, 3>>, <<1, 4>>, <<1, 5>>, <<5, 6>>, <<3, 7>>, <<3, 8>>>>
        IN  Edge(pairs[k][1], pairs[k][2], 0)])

GRAPH_DEPTH_4_BFS_WITH_DEPTH ==
    <<<<0, 0>>, <<3, 1>>, <<2, 1>>, <<1, 1>>, <<8, 2>>, <<7, 2>>, <<5, 2>>, <<4, 2>>, <<6, 3>>>>

\* A graph with a cycle through the start node 0, a node (2) that is the
\* successor of two nodes of different depths, a node (4) that is the successor
\* of two nodes of the same depth, an edge from a node to itself and a node (5)
\* that is not reachable from node 0.
GRAPH_SHARED_CYCLE ==
    graph_with(6, <<<<0, 1>>, <<0, 2>>, <<1, 2>>, <<2, 0>>, <<1, 4>>, <<2, 4>>, <<4, 4>>,
                    <<4, 3>>, <<5, 1>>>>)

\* --------------------------------------------------------- the state machine
VARIABLES
    original,       \* the sentence the caller starts with
    sentence,       \* the argument of the call in progress (or of the last call)
    calls,          \* the operations called so far, in order
    pc,             \* "idle", "projectivize" (in its loop), "deprojectivize" (in its loop), "returned"
    graph,          \* the local graph of the call in progress
    lifted,         \* projectivize: the set of lifted nodes
    lifted_sorted,  \* deprojectivize: the nodes still to reattach
    head_labels,    \* deprojectivize: preferred head label of every encoded node
    result,         \* what the last call returned: Ok(sentence), Err(error) or a panic
    lifts,          \* history: targets of the lifts of the projectivize call, in order
    reattached,     \* history: nodes reattached by the deprojectivize call, in order
    writers,        \* PartitioningWriter: the Writers, each [write, first]
    fold,           \* PartitioningWriter: the position of the writer that was last written to
    pending,        \* the sentences the caller is still going to write, in order
    log,            \* history: the write_sentence calls, each [sentence, writer, kind]
    input,          \* the text the Reader was made over (an Option: None before Reader::new)
    read,           \* Reader: the lines left in the source
    results,        \* history: what the read_sentence calls returned, in order
    lhs,            \* the Features value on the left of ==
    rhs,            \* the Features value on the right of ==
    compared,       \* what lhs == rhs returned (an Option: None before the comparison)
    bfs_graph,      \* the graph a BfsWithDepth of the caller's walks
    bfs_start,      \* the node the walk starts at
    walker,         \* BfsWithDepth: [cur_stack, next_stack, discovered, depth]
    visits          \* history: what the calls of BfsWithDepth::next returned, in order

projVars == <<original, sentence, calls, pc, graph, lifted, lifted_sorted, head_labels,
              result, lifts, reattached>>
ioVars == <<writers, fold, pending, log, input, read, results>>
featuresVars == <<lhs, rhs, compared>>
bfsVars == <<bfs_graph, bfs_start, walker, visits>>

vars == <<original, sentence, calls, pc, graph, lifted, lifted_sorted, head_labels,
          result, lifts, reattached, writers, fold, pending, log, input, read, results,
          lhs, rhs, compared, bfs_graph, bfs_start, walker, visits>>

\* No transformation, no codec, no comparison and no walker is in use.
ProjUnused ==
    /\ original = <<>> /\ sentence = <<>> /\ calls = <<>> /\ pc = "idle"
    /\ graph = EmptyGraph
    /\ lifted = {} /\ lifted_sorted = <<>> /\ head_labels = <<>>
    /\ result = NoResult /\ lifts = <<>> /\ reattached = <<>>
IOUnused ==
    /\ writers = <<>> /\ fold = 0 /\ pending = <<>> /\ log = <<>>
    /\ input = None /\ read = <<>> /\ results = <<>>
FeaturesUnused == lhs = None /\ rhs = None /\ compared = None
BfsUnused ==
    /\ bfs_graph = EmptyGraph /\ bfs_start = 0
    /\ walker = BfsWithDepth_new(0) /\ visits = <<>>

\* The caller's sentence: a dependency tree rooted at node 0 of up to MaxLen
\* tokens whose labels are pairwise distinct, one of up to MaxDupLen tokens with
\* labels drawn from Atoms, any sentence of up to MaxAnyLen tokens, one of the
\* sentences of the tests, the sentence with the label on a sibling, the one
\* with the label on two nodes as far from the parent, or the one with an
\* encoded label on a token without a head.
Init ==
    /\ \/ \E n \in 1..MaxLen : \E heads \in TreeHeads(n) :
            original = MakeSentence(n, [i \in 1..n |-> Some(heads[i])],
                                       [i \in 1..n |-> Some(<<LabelNames[i]>>)])
       \/ \E n \in 1..MaxDupLen : \E heads \in TreeHeads(n) : \E rels \in [1..n -> PlainLabels] :
            original = MakeSentence(n, [i \in 1..n |-> Some(heads[i])],
                                       [i \in 1..n |-> Some(rels[i])])
       \/ \E n \in 0..MaxAnyLen : \E heads \in AnyHeads(n) : \E rels \in AnyRels(n) :
            original = MakeSentence(n, heads, rels)
       \/ \E k \in 1..Len(NON_PROJECTIVE_SENTENCES) :
            original \in {NON_PROJECTIVE_SENTENCES[k], PROJECTIVE_SENTENCES[k]}
       \/ original \in {SIBLING_SENTENCE, TIE_SENTENCE, HEADLESS_SENTENCE}
    /\ sentence = original
    /\ calls = <<>>
    /\ pc = "idle"
    /\ graph = EmptyGraph
    /\ lifted = {}
    /\ lifted_sorted = <<>>
    /\ head_labels = <<>>
    /\ result = NoResult
    /\ lifts = <<>>
    /\ reattached = <<>>
    /\ IOUnused
    /\ FeaturesUnused
    /\ BfsUnused

\* projectivize, from its entry to the loop: the graph is built, or the error
\* of sentence_to_graph is returned.
Projectivize ==
    /\ pc = "idle"
    /\ calls' = Append(calls, "projectivize")
    /\ LET built == sentence_to_graph(sentence)
       IN  IF built.ok
           THEN /\ graph' = built.graph
                /\ pc' = "projectivize"
                /\ result' = NoResult
           ELSE /\ graph' = EmptyGraph
                /\ pc' = "returned"
                /\ result' = Err(built.err)
    /\ lifted' = {}
    /\ lifts' = <<>>
    /\ UNCHANGED <<original, sentence, lifted_sorted, head_labels, reattached>>
    /\ UNCHANGED <<ioVars, featuresVars, bfsVars>>

\* One iteration of the loop of projectivize with a non-projective edge left:
\* the first edge of the detector's list is lifted, or lift panics.
Lift ==
    /\ pc = "projectivize"
    /\ Len(lifts) < MaxLifts
    /\ LET np_edges == non_projective_edges(graph)
       IN  /\ np_edges # <<>>
           /\ LET r == lift(graph, lifted, np_edges[1])
              IN  IF r.panic
                  THEN /\ pc' = "returned"
                       /\ result' = Panic(r.msg)
                       /\ UNCHANGED <<graph, lifted, lifts>>
                  ELSE /\ graph' = r.graph
                       /\ lifted' = r.lifted
                       /\ lifts' = Append(lifts, np_edges[1].target)
                       /\ UNCHANGED <<pc, result>>
    /\ UNCHANGED <<original, sentence, calls, lifted_sorted, head_labels, reattached>>
    /\ UNCHANGED <<ioVars, featuresVars, bfsVars>>

\* The iteration that finds no non-projective edge: break, update_sentence, Ok.
ProjectivizeReturn ==
    /\ pc = "projectivize"
    /\ non_projective_edges(graph) = <<>>
    /\ pc' = "returned"
    /\ result' = Ok(update_sentence(graph, sentence))
    /\ UNCHANGED <<original, sentence, calls, graph, lifted, lifted_sorted, head_labels,
                   lifts, reattached>>
    /\ UNCHANGED <<ioVars, featuresVars, bfsVars>>

\* deprojectivize, from its entry to the loop.  The caller passes the sentence
\* it starts with, or the sentence projectivize returned.
Deprojectivize ==
    /\ \/ pc = "idle" /\ sentence' = sentence
       \/ pc = "returned" /\ calls = <<"projectivize">> /\ result.kind = "Ok"
            /\ sentence' = result.sentence
    /\ calls' = Append(calls, "deprojectivize")
    /\ reattached' = <<>>
    /\ LET built == sentence_to_graph(sentence')
       IN  IF ~built.ok
           THEN /\ pc' = "returned"
                /\ result' = Err(built.err)
                /\ UNCHANGED <<graph, lifted_sorted, head_labels>>
           ELSE LET prepared == prepare_deproj(built.graph)
                IN  IF DOMAIN prepared.head_labels = {}
                    THEN /\ pc' = "returned"
                         /\ result' = Ok(sentence')
                         /\ UNCHANGED <<graph, lifted_sorted, head_labels>>
                    ELSE /\ pc' = "deprojectivize"
                         /\ result' = NoResult
                         /\ graph' = prepared.graph
                         /\ head_labels' = prepared.head_labels
                         /\ lifted_sorted' =
                                SelectSeq(Bfs(prepared.graph, 0),
                                          LAMBDA node : node \in DOMAIN prepared.head_labels)
    /\ UNCHANGED <<original, lifted, lifts>>
    /\ UNCHANGED <<ioVars, featuresVars, bfsVars>>

\* One iteration of the loop of deprojectivize in which deprojectivize_next
\* reattaches a node: the node leaves lifted_sorted.
Reattach ==
    /\ pc = "deprojectivize"
    /\ LET r == deprojectivize_next(graph, lifted_sorted, head_labels)
       IN  /\ r.idx # None
           /\ graph' = r.graph
           /\ lifted_sorted' = RemoveAt(lifted_sorted, Unwrap(r.idx))
           /\ reattached' = Append(reattached, lifted_sorted[Unwrap(r.idx)])
    /\ UNCHANGED <<original, sentence, calls, pc, lifted, head_labels, result, lifts>>
    /\ UNCHANGED <<ioVars, featuresVars, bfsVars>>

\* The iteration in which deprojectivize_next finds nothing: break,
\* update_sentence, Ok.
DeprojectivizeReturn ==
    /\ pc = "deprojectivize"
    /\ deprojectivize_next(graph, lifted_sorted, head_labels).idx = None
    /\ pc' = "returned"
    /\ result' = Ok(update_sentence(graph, sentence))
    /\ UNCHANGED <<original, sentence, calls, graph, lifted, lifted_sorted, head_labels,
                   lifts, reattached>>
    /\ UNCHANGED <<ioVars, featuresVars, bfsVars>>

Next ==
    \/ Projectivize
    \/ Lift
    \/ ProjectivizeReturn
    \/ Deprojectivize
    \/ Reattach
    \/ DeprojectivizeReturn

Spec == Init /\ [][Next]_vars

\* ------------------------------------------- the codec as a state machine
\* A caller makes a PartitioningWriter over one or more Writers with empty
\* sinks and writes its sentences, then makes a Reader over what a sink holds
\* and reads it; or it makes a Reader over a source of its own.
InitIO ==
    /\ ProjUnused
    /\ FeaturesUnused
    /\ BfsUnused
    /\ fold = 0
    /\ log = <<>>
    /\ results = <<>>
    /\ \/ /\ \E m \in 1..MaxWriters : writers = [j \in 1..m |-> Writer_new]
          /\ \E n \in 0..MaxWrites : pending \in SeqsOfLen(WrittenSentences, n)
          /\ input = None /\ read = <<>>
       \/ /\ writers = <<Writer_new>>
          /\ \E token \in FieldTokens : pending \in {<<<<token>>>>, <<<<token, token>>>>}
          /\ input = None /\ read = <<>>
       \/ /\ writers = <<>> /\ pending = <<>>
          /\ \E n \in 1..MaxLines : \E text \in SeqsOfLen(SourceLines, n) :
                input = Some(text) /\ read = Reader_new(text)

\* PartitioningWriter::write_sentence with the caller's next sentence.  The
\* sink takes the bytes or fails, and the build checks overflow or not.
WriteSentence ==
    /\ pending # <<>>
    /\ input = None
    /\ \A k \in 1..Len(log) : log[k].kind # "panic"
    /\ \E io_ok \in BOOLEAN : \E overflow_checks \in BOOLEAN :
        LET r == PartitioningWriter_write_sentence(writers, fold, Head(pending),
                                                   io_ok, overflow_checks)
        IN  /\ writers' = r.writers
            /\ fold' = r.fold
            /\ log' = Append(log, [sentence |-> Head(pending), writer |-> r.writer,
                                   kind |-> r.kind])
    /\ pending' = Tail(pending)
    /\ UNCHANGED <<input, read, results>>
    /\ UNCHANGED <<projVars, featuresVars, bfsVars>>

\* Reader::new over what the sink of one of the writers holds, when the caller
\* has written its sentences.
OpenReader ==
    /\ input = None
    /\ pending = <<>>
    /\ \E j \in 1..Len(writers) :
        /\ input' = Some(writers[j].write)
        /\ read' = Reader_new(writers[j].write)
    /\ UNCHANGED <<writers, fold, pending, log, results>>
    /\ UNCHANGED <<projVars, featuresVars, bfsVars>>

\* Reader::read_sentence.  The caller goes on until it has got None twice.
ReadSentence ==
    /\ input # None
    /\ Cardinality({k \in 1..Len(results) : results[k] = Ok(None)}) < 2
    /\ LET r == read_sentence(read)
       IN  /\ results' = Append(results, r.result)
           /\ read' = r.read
    /\ UNCHANGED <<writers, fold, pending, log, input>>
    /\ UNCHANGED <<projVars, featuresVars, bfsVars>>

NextIO ==
    \/ WriteSentence
    \/ OpenReader
    \/ ReadSentence

SpecIO == InitIO /\ [][NextIO]_vars

\* ------------------------------------- Features equality as a state machine
\* The raw strings of one piece to MaxPieces pieces.
RawFeatures == UNION {SeqsOfLen(FeaturePieces, n) : n \in 1..MaxPieces}

InitFeatures ==
    /\ ProjUnused
    /\ IOUnused
    /\ BfsUnused
    /\ \E a \in RawFeatures : lhs = Some(Features(a))
    /\ \E b \in RawFeatures : rhs = Some(Features(b))
    /\ compared = None

\* lhs == rhs
Compare ==
    /\ compared = None
    /\ compared' = Some(Features_eq(Unwrap(lhs), Unwrap(rhs)))
    /\ UNCHANGED <<lhs, rhs>>
    /\ UNCHANGED <<projVars, ioVars, bfsVars>>

NextFeatures == Compare

SpecFeatures == InitFeatures /\ [][NextFeatures]_vars

\* ------------------------------------------ the walker as a state machine
\* The sequences of up to n elements of the set S.
SeqsUpTo(S, n) == UNION {SeqsOfLen(S, k) : k \in 0..n}

\* A caller makes a BfsWithDepth over a graph and a start node of the graph:
\* a graph over BfsNodes nodes with any edges, loops and parallel edges
\* included, or one of the two graphs above.
InitBfs ==
    /\ ProjUnused
    /\ IOUnused
    /\ FeaturesUnused
    /\ \/ \E pairs \in SeqsUpTo((0..(BfsNodes - 1)) \X (0..(BfsNodes - 1)), MaxBfsEdges) :
            bfs_graph = graph_with(BfsNodes, pairs)
       \/ bfs_graph \in {GRAPH_DEPTH_4, GRAPH_SHARED_CYCLE}
    /\ bfs_start \in 0..(bfs_graph.node_count - 1)
    /\ walker = BfsWithDepth_new(bfs_start)
    /\ visits = <<>>

\* BfsWithDepth::next on the graph.  The caller goes on until it has got None
\* twice.
BfsNext ==
    /\ bfs_graph # EmptyGraph
    /\ Cardinality({k \in 1..Len(visits) : visits[k] = None}) < 2
    /\ LET r == BfsWithDepth_next(walker,
                    [n \in 0..(bfs_graph.node_count - 1) |-> neighbors(bfs_graph, n)])
       IN  /\ walker' = r.walker
           /\ visits' = Append(visits, r.item)
    /\ UNCHANGED <<bfs_graph, bfs_start>>
    /\ UNCHANGED <<projVars, ioVars, featuresVars>>

NextBfs == BfsNext

SpecBfs == InitBfs /\ [][NextBfs]_vars

\* ------------------------------------------------- vocabulary of the claims
\* These definitions do not use the operators that model the code: they state
\* what a sentence or a graph is, from the head fields and the edge list alone.

\* i is j or an ancestor of j in the head relation of sentence s.
RECURSIVE OnHeadChain(_, _, _, _)
OnHeadChain(s, i, j, fuel) ==
    IF j = i THEN TRUE
    ELSE IF fuel = 0 \/ j = 0 \/ j > Len(s) THEN FALSE
    ELSE IF s[j].head = None THEN FALSE
    ELSE OnHeadChain(s, i, Unwrap(s[j].head), fuel - 1)

\* Every edge head(k) -> k of s is projective: every position strictly between
\* head(k) and k is reachable from head(k).
SentenceProjective(s) ==
    \A k \in 1..Len(s) : s[k].head # None =>
        LET i == Unwrap(s[k].head)
        IN  \A j \in (Min(i, k) + 1)..(Max(i, k) - 1) : OnHeadChain(s, i, j, Len(s) + 1)

\* Some token of s has a head and no head label.
HasUnlabelledHead(s) == \E i \in 1..Len(s) : s[i].head # None /\ s[i].head_rel = None

\* The head labels of s are pairwise distinct.
DistinctLabels(s) ==
    \A i \in 1..Len(s) : \A k \in 1..Len(s) : s[i].head_rel = s[k].head_rel => i = k

\* s1 and s2 have the same length and every token the same head and head label.
SameDependencies(s1, s2) ==
    /\ Len(s1) = Len(s2)
    /\ \A i \in 1..Len(s1) : s1[i].head = s2[i].head /\ s1[i].head_rel = s2[i].head_rel

\* The edges of g that enter node t.
InEdges(g, t) == {k \in 1..Len(g.edges) : g.edges[k].target = t}

\* The edge entering t, when there is exactly one.
InEdge(g, t) == g.edges[CHOOSE k \in InEdges(g, t) : TRUE]

\* Number of edges from node 0 down to t, following the incoming edges upwards
\* (fuel + 1 when node 0 is not found within fuel steps).
RECURSIVE GraphDepth(_, _, _)
GraphDepth(g, t, fuel) ==
    IF t = 0 THEN 0
    ELSE IF fuel = 0 \/ InEdges(g, t) = {} THEN fuel + 1
    ELSE 1 + GraphDepth(g, InEdge(g, t).source, fuel - 1)

\* g is a tree over the nodes 0..n rooted at node 0.
GraphIsTree(g, n) ==
    /\ InEdges(g, 0) = {}
    /\ \A t \in 1..n : Cardinality(InEdges(g, t)) = 1
    /\ \A k \in 1..Len(g.edges) : g.edges[k].source \in 0..n /\ g.edges[k].target \in 1..n
    /\ \A t \in 1..n : GraphDepth(g, t, n) <= n

\* Depth of token i in the tree sentence s, and the sum of all depths.
RECURSIVE SentenceDepth(_, _, _)
SentenceDepth(s, i, fuel) ==
    IF i = 0 \/ fuel = 0 THEN 0
    ELSE 1 + SentenceDepth(s, Unwrap(s[i].head), fuel - 1)

RECURSIVE SumDepths(_, _)
SumDepths(s, i) ==
    IF i > Len(s) THEN 0 ELSE SentenceDepth(s, i, Len(s)) + SumDepths(s, i + 1)

\* The last call was op and has returned.
Returned(op) == pc = "returned" /\ calls # <<>> /\ calls[Len(calls)] = op

\* ----------------------------------------------------------------- claims

\* C1: for every sentence that is a dependency tree rooted at node 0,
\* projectivize returns a sentence in which no edge is non-projective.
C1_OutputProjective ==
    (Returned("projectivize") /\ IsTree(sentence)) =>
        /\ result.kind = "Ok"
        /\ SentenceProjective(result.sentence)
        /\ non_projective_edges(sentence_to_graph(result.sentence).graph) = <<>>

\* C1 witness: projectivize has returned for a tree it had to lift twice in.
C1_Witness ==
    /\ Returned("projectivize") /\ IsTree(sentence)
    /\ ~SentenceProjective(sentence)
    /\ Len(lifts) >= 2
    /\ result.kind = "Ok"

\* C2: from a tree rooted at node 0, after every lift and in the returned
\* sentence, node 0 has no incoming edge, every node 1..n has exactly one, and
\* every node is reachable from node 0.
C2_TreePreserved ==
    /\ (pc = "projectivize" /\ IsTree(sentence)) => GraphIsTree(graph, Len(sentence))
    /\ (Returned("projectivize") /\ IsTree(sentence)) =>
            result.kind = "Ok" /\ IsTree(result.sentence)

\* C2 witness: in the loop of projectivize on a tree, after two lifts.
C2_Witness == pc = "projectivize" /\ IsTree(sentence) /\ Len(lifts) = 2

\* C3 as claimed: for every tree rooted at node 0 whose labels contain no '|',
\* deprojectivize(projectivize(S)) has the heads and head labels of S.
C3_RoundTripAnyTree ==
    (Returned("deprojectivize") /\ calls = <<"projectivize", "deprojectivize">>
        /\ IsTree(original) /\ NoSeparator(original)) =>
        result.kind = "Ok" /\ SameDependencies(result.sentence, original)

\* C3 amended: the round trip restores S when, in addition, the head labels of
\* S are pairwise distinct and no head label of projectivize(S) has more than
\* one '|'.
C3_RoundTripDistinct ==
    (Returned("deprojectivize") /\ calls = <<"projectivize", "deprojectivize">>
        /\ IsTree(original) /\ NoSeparator(original) /\ DistinctLabels(original)
        /\ \A i \in 1..Len(sentence) : Len(Unwrap(sentence[i].head_rel)) <= 2) =>
        result.kind = "Ok" /\ SameDependencies(result.sentence, original)

\* C3 witness: a round trip, with lifts and reattachments, of a tree with
\* distinct labels.
C3_Witness ==
    /\ Returned("deprojectivize") /\ calls = <<"projectivize", "deprojectivize">>
    /\ IsTree(original) /\ NoSeparator(original) /\ DistinctLabels(original)
    /\ \A i \in 1..Len(sentence) : Len(Unwrap(sentence[i].head_rel)) <= 2
    /\ Len(lifts) >= 2 /\ reattached # <<>>
    /\ result = Ok(original)

\* C4: on the four sentences of the tests projectivize yields the listed
\* projective sentence, and deprojectivize of the projective sentence yields
\* the non-projective one.
C4_ReferenceSentences ==
    \A k \in 1..Len(NON_PROJECTIVE_SENTENCES) :
        /\ (Returned("projectivize") /\ sentence = NON_PROJECTIVE_SENTENCES[k]) =>
                result = Ok(PROJECTIVE_SENTENCES[k])
        /\ (Returned("deprojectivize") /\ sentence = PROJECTIVE_SENTENCES[k]) =>
                result = Ok(NON_PROJECTIVE_SENTENCES[k])

\* C4 witness: deprojectivize has restored the sentence with two
\* non-projective edges.
C4_Witness ==
    /\ Returned("deprojectivize") /\ calls = <<"deprojectivize">>
    /\ sentence = PROJECTIVE_SENTENCES[4]
    /\ Len(reattached) = 2

\* C5: if the graph of S has no non-projective edge, projectivize(S) = S and
\* no lift is performed.
C5_ProjectiveIdentity ==
    (Returned("projectivize") /\ ~HasUnlabelledHead(sentence) /\ SentenceProjective(sentence)) =>
        result = Ok(sentence) /\ lifts = <<>>

\* C5 witness: projectivize has returned for a projective sentence of three
\* tokens or more in which some token's head is not node 0.
C5_Witness ==
    /\ Returned("projectivize") /\ ~HasUnlabelledHead(sentence) /\ SentenceProjective(sentence)
    /\ Len(sentence) >= 3
    /\ \E i \in 1..Len(sentence) : sentence[i].head \notin {None, Some(0)}
    /\ result = Ok(sentence)

\* A step of the loop of projectivize that lifts an edge.
LiftStep == pc = "projectivize" /\ pc' = "projectivize" /\ graph' # graph

\* C6: on a tree, each lift reduces the depth of the lifted token by exactly
\* one and increases no token's depth, and the number of lifts never exceeds
\* the sum of the token depths of the input (so the loop ends, and it ends
\* before the history of lifts is full).
C6_LiftsBounded ==
    /\ [][(LiftStep /\ IsTree(sentence)) =>
            LET n == Len(sentence)
                c == lifts'[Len(lifts')]
            IN  /\ GraphDepth(graph', c, n) = GraphDepth(graph, c, n) - 1
                /\ \A t \in 1..n : GraphDepth(graph', t, n) <= GraphDepth(graph, t, n)]_vars
    /\ []((pc = "projectivize" /\ IsTree(sentence)) =>
            Len(lifts) <= SumDepths(sentence, 1) /\ Len(lifts) < MaxLifts)

\* C6 witness: the loop of projectivize has ended after lifts on a tree.
C6_Witness == Returned("projectivize") /\ IsTree(sentence) /\ lifts # <<>> /\ result.kind = "Ok"

\* C7: the first lift of token c in a run moves the edge p -> c with label l to
\* the parent q of p and labels it l|l_p, l_p being the label of the edge
\* entering p at that moment; a later lift of c moves the edge to q and keeps
\* its label.
C7_LiftLabel ==
    [][LiftStep =>
        \E c \in 1..(graph.node_count - 1) :
            /\ \A t \in 0..(graph.node_count - 1) :
                    t # c => {graph.edges[k] : k \in InEdges(graph, t)}
                                = {graph'.edges[k] : k \in InEdges(graph', t)}
            /\ Cardinality(InEdges(graph, c)) = 1 /\ Cardinality(InEdges(graph', c)) = 1
            /\ LET old == InEdge(graph, c)
                   new == InEdge(graph', c)
                   up == InEdge(graph, old.source)
               IN  /\ Cardinality(InEdges(graph, old.source)) = 1
                   /\ new.source = up.source
                   /\ new.weight = IF c \in Range(lifts) THEN old.weight
                                   ELSE old.weight \o up.weight]_vars

\* C7 witness: in the loop of projectivize, a token has been lifted twice.
C7_Witness ==
    /\ pc = "projectivize"
    /\ \E i \in 1..Len(lifts) : \E k \in 1..Len(lifts) : i < k /\ lifts[i] = lifts[k]

\* C8: a token with a head and no head label makes sentence_to_graph fail with
\* IncompleteGraph, and projectivize and deprojectivize return that error and
\* no sentence; tokens without a head cause no error and get no edge.
C8_IncompleteGraph ==
    /\ HasUnlabelledHead(sentence) <=> ~sentence_to_graph(sentence).ok
    /\ pc = "returned" =>
        /\ HasUnlabelledHead(sentence) <=> result.kind = "Err"
        /\ result.kind = "Err" => result.err.kind = "IncompleteGraph"
        /\ result.kind = "Ok" =>
             \A i \in 1..Len(sentence) :
                sentence[i].head = None => result.sentence[i] = sentence[i]

\* C8 witness: deprojectivize has returned the error for a sentence in which
\* another token has a label and no head.
C8_Witness ==
    /\ Returned("deprojectivize") /\ result.kind = "Err"
    /\ \E i \in 1..Len(sentence) : sentence[i].head = None /\ sentence[i].head_rel # None

\* projectivize is in its loop and the edge it lifts next leaves node 0.
RootLiftDue ==
    /\ pc = "projectivize"
    /\ non_projective_edges(graph) # <<>>
    /\ non_projective_edges(graph)[1].source = 0

\* C9 as claimed: when projectivize has to lift an edge whose source is node 0
\* the call ends and returns an error to the caller.
C9_RootLiftReturnsError ==
    [][RootLiftDue => (pc' = "returned" /\ result'.kind = "Err")]_vars

\* C9 amended: when projectivize has to lift an edge whose source is node 0 the
\* call ends in the panic of lift's expect(): it does not loop and returns
\* neither a sentence nor an error value.
C9_RootLiftPanics ==
    [][RootLiftDue => (pc' = "returned" /\ result'.kind = "panic")]_vars

\* C9 witness: projectivize has panicked on the sentence whose token 1 has no
\* head and whose token 2 has head 0.
C9_Witness ==
    /\ Returned("projectivize") /\ result.kind = "panic"
    /\ Len(sentence) = 2 /\ sentence[1].head = None /\ sentence[2].head = Some(0)

\* C10 as claimed: if no head label of the input contains '|', deprojectivize
\* returns the input and reattaches nothing.
C10_NoSeparatorIdentity ==
    (Returned("deprojectivize") /\ NoSeparator(sentence)) =>
        result = Ok(sentence) /\ reattached = <<>>

\* C10 amended: if no head label of the input contains '|' and every token
\* with a head has a head label, deprojectivize returns the input and
\* reattaches nothing.
C10_NoSeparatorIdentityComplete ==
    (Returned("deprojectivize") /\ NoSeparator(sentence) /\ ~HasUnlabelledHead(sentence)) =>
        result = Ok(sentence) /\ reattached = <<>>

\* C10 witness: deprojectivize has returned a non-projective tree without '|'
\* as it got it.
C10_Witness ==
    /\ Returned("deprojectivize") /\ NoSeparator(sentence) /\ IsTree(sentence)
    /\ ~SentenceProjective(sentence)
    /\ result = Ok(sentence)

\* The nodes of g reachable from the nodes of S along edges, S included.
RECURSIVE ReachableFrom(_, _)
ReachableFrom(g, S) ==
    LET step == S \cup {g.edges[k].target : k \in {x \in 1..Len(g.edges) : g.edges[x].source \in S}}
    IN  IF step = S THEN S ELSE ReachableFrom(g, step)

\* Some position strictly between the ends of edge e of g is not reachable
\* from the source of e.
EdgeNonProjective(g, e) ==
    \E j \in (Min(e.source, e.target) + 1)..(Max(e.source, e.target) - 1) :
        j \notin ReachableFrom(g, {e.source})

\* projectivize is in its loop, about to call non_projective_edges on graph.
InLoop == pc = "projectivize"

\* C11: non_projective_edges returns exactly the edges i -> k of the graph for
\* which some position strictly between i and k is not reachable from i, each
\* of them once.
C11_DetectorExact ==
    InLoop =>
        LET np == non_projective_edges(graph)
        IN  /\ Range(np) = {e \in Range(graph.edges) : EdgeNonProjective(graph, e)}
            /\ \A a \in 1..Len(np) : \A b \in 1..Len(np) : np[a] = np[b] => a = b

\* C11 witness: the graph of the loop has an edge that is returned, and an edge
\* spanning a position that is not returned because the position is reached
\* through a path of two edges or more.
C11_Witness ==
    /\ InLoop
    /\ \E e \in Range(graph.edges) : EdgeNonProjective(graph, e)
    /\ \E e \in Range(graph.edges) :
            /\ ~EdgeNonProjective(graph, e)
            /\ \E j \in (Min(e.source, e.target) + 1)..(Max(e.source, e.target) - 1) :
                    \A k \in InEdges(graph, j) : graph.edges[k].source # e.source

\* C12: the list non_projective_edges returns is non-decreasing in span, and
\* edges of equal span are in the order of their source nodes; for the
\* reference sentence with two non-projective edges it is [1 -> 3, 7 -> 5].
C12_DetectorOrder ==
    /\ InLoop =>
            LET np == non_projective_edges(graph)
            IN  \A a \in 1..Len(np) : \A b \in 1..Len(np) :
                    a < b => /\ Dist(np[a].source, np[a].target) <= Dist(np[b].source, np[b].target)
                             /\ Dist(np[a].source, np[a].target) = Dist(np[b].source, np[b].target)
                                    => np[a].source <= np[b].source
    /\ (pc = "projectivize" /\ sentence = NON_PROJECTIVE_SENTENCES[4] /\ lifts = <<>>) =>
            LET np == non_projective_edges(graph)
            IN  [k \in 1..Len(np) |-> <<np[k].source, np[k].target>>] = <<<<1, 3>>, <<7, 5>>>>

\* C12 witness: projectivize is in its loop on the reference sentence, whose
\* graph has two non-projective edges of the same span that leave different
\* nodes.
C12_Witness ==
    /\ pc = "projectivize" /\ sentence = NON_PROJECTIVE_SENTENCES[4] /\ lifts = <<>>
    /\ LET np == non_projective_edges(graph)
       IN  \E a \in 1..Len(np) : \E b \in 1..Len(np) :
                /\ Dist(np[a].source, np[a].target) = Dist(np[b].source, np[b].target)
                /\ np[a].source # np[b].source

\* Token c of the sentence deprojectivize was called with has an encoded label
\* and was not reattached by the call.
Stuck(c) ==
    /\ sentence[c].head # None /\ sentence[c].head_rel # None
    /\ Len(Unwrap(sentence[c].head_rel)) > 1
    /\ c \notin Range(reattached)

\* C13: when the loop of deprojectivize ends with encoded tokens that were not
\* reattached, deprojectivize returns a sentence and no error, and each such
\* token has the head of the input and, as its head label, the part of its
\* encoded label before the first '|'.
C13_StuckTokens ==
    (Returned("deprojectivize") /\ ~HasUnlabelledHead(sentence)
        /\ \E c \in 1..Len(sentence) : Stuck(c)) =>
        /\ result.kind = "Ok"
        /\ Len(result.sentence) = Len(sentence)
        /\ \A c \in 1..Len(sentence) : Stuck(c) =>
                /\ result.sentence[c].head = sentence[c].head
                /\ result.sentence[c].head_rel = Some(<<Head(Unwrap(sentence[c].head_rel))>>)

\* C13 witness: deprojectivize has returned for the output of projectivize on a
\* tree, one token reattached and another one left where it was, the latter
\* having looked for an attachment point.
C13_Witness ==
    /\ Returned("deprojectivize") /\ calls = <<"projectivize", "deprojectivize">>
    /\ IsTree(original)
    /\ reattached # <<>>
    /\ lifted_sorted # <<>>
    /\ \A c \in Range(lifted_sorted) : Stuck(c)
    /\ result.kind = "Ok"

\* Tokens t1 and t2 agree in every field but head and head label.
SameOtherFields(t1, t2) ==
    /\ t1.form = t2.form /\ t1.lemma = t2.lemma /\ t1.cpos = t2.cpos /\ t1.pos = t2.pos
    /\ t1.features = t2.features
    /\ t1.p_head = t2.p_head /\ t1.p_head_rel = t2.p_head_rel

\* C14: projectivize and deprojectivize leave the sentence they are called with
\* as it is, and the sentence they return has the same number of tokens, every
\* token with its form, lemma, coarse and fine POS, features, projective head
\* and projective head label; head and head label differ only for tokens that
\* are the target of an edge of the graph (the tokens with a head).
C14_Frame ==
    /\ [][pc # "returned" => sentence' = sentence]_vars
    /\ []((pc = "returned" /\ result.kind = "Ok") =>
            /\ Len(result.sentence) = Len(sentence)
            /\ \A i \in 1..Len(sentence) :
                    /\ SameOtherFields(result.sentence[i], sentence[i])
                    /\ sentence[i].head = None => result.sentence[i] = sentence[i])

\* C14 witness: projectivize has returned a sentence that differs from its
\* input, for an input with three tokens or more, one of them with every field
\* set.
C14_Witness ==
    /\ Returned("projectivize") /\ result.kind = "Ok"
    /\ Len(sentence) >= 3
    /\ result.sentence # sentence
    /\ \E i \in 1..Len(sentence) :
            /\ result.sentence[i] # sentence[i]
            /\ sentence[i].lemma # None /\ sentence[i].features # None
            /\ sentence[i].p_head # None /\ sentence[i].p_head_rel # None

\* C20: in every iteration of the loop of projectivize that lifts an edge, the
\* edge is non-projective in the graph of that iteration and no non-projective
\* edge of that graph has a smaller span.
C20_ShortestFirst ==
    [][LiftStep =>
        LET c == lifts'[Len(lifts')]
        IN  /\ Cardinality(InEdges(graph, c)) = 1
            /\ InEdge(graph', c) # InEdge(graph, c)
            /\ EdgeNonProjective(graph, InEdge(graph, c))
            /\ \A e \in Range(graph.edges) :
                    EdgeNonProjective(graph, e) =>
                        Dist(InEdge(graph, c).source, c) <= Dist(e.source, e.target)]_vars

\* C20 witness: projectivize has lifted an edge of a tree whose graph had
\* non-projective edges of two different spans, and then another one.
C20_Witness ==
    /\ pc = "projectivize" /\ IsTree(sentence) /\ Len(lifts) = 2
    /\ LET g == [node_count |-> Len(sentence) + 1,
                 edges |-> [i \in 1..Len(sentence) |->
                              [source |-> Unwrap(sentence[i].head), target |-> i,
                               weight |-> Unwrap(sentence[i].head_rel)]]]
       IN  \E e1 \in Range(g.edges) : \E e2 \in Range(g.edges) :
                /\ EdgeNonProjective(g, e1) /\ EdgeNonProjective(g, e2)
                /\ Dist(e1.source, e1.target) < Dist(e2.source, e2.target)

\* ------------------------------------------------------ claims on the codec
\* The lines of sentence s in the tabular format (the text of the sentence
\* without tokens is the empty text).
Rendered(s) ==
    IF s = <<>> THEN <<Blank>>
    ELSE [id \in 1..Len(s) |-> <<to_string(id)>> \o Display_Token(s[id])]

\* The texts of the sentences ss with "\n\n" between one and the next: the
\* lines of the first, one blank line, the lines of the second, and so on.
RECURSIVE Joined(_)
Joined(ss) ==
    IF Len(ss) = 1 THEN Rendered(ss[1])
    ELSE Rendered(ss[1]) \o <<Blank>> \o Joined(Tail(ss))

\* The calls of the log that went to writer j, and their sentences.
CallsOn(j) == SelectSeq(log, LAMBDA call : call.writer = j)
SentencesOn(j) == [k \in 1..Len(CallsOn(j)) |-> CallsOn(j)[k].sentence]

\* C15: after one or more write_sentence calls on a Writer, all of them
\* successful, its sink holds the sentences in the order of the calls with
\* exactly one blank line between one and the next, nothing before the first
\* and nothing after the last.
C15_BlankLineBetween ==
    \A j \in 1..Len(writers) :
        (CallsOn(j) # <<>> /\ \A k \in 1..Len(CallsOn(j)) : CallsOn(j)[k].kind = "Ok") =>
            writers[j].write = Joined(SentencesOn(j))

\* C15 witness: one Writer has written three sentences with tokens.
C15_Witness ==
    /\ Len(writers) = 1 /\ Len(log) = 3
    /\ \A k \in 1..3 : log[k].kind = "Ok" /\ log[k].sentence # <<>>
    /\ log[1].sentence # log[2].sentence

\* The writer the next call of write_sentence goes to.
NextWriter(f) == IF f = Len(writers) THEN 1 ELSE f + 1

\* The number of successful calls among the first k of the log.
Successes(k) == Cardinality({x \in 1..k : log[x].kind = "Ok"})

\* C16: a PartitioningWriter over m writers passes the k-th sentence to writer
\* ((k-1) mod m)+1 and to no other writer as long as the writes succeed, and a
\* failed write does not advance the position: every call goes to the writer
\* after the one of the last successful call.
C16_RoundRobin ==
    /\ [](writers # <<>> =>
            /\ \A k \in 1..Len(log) : log[k].writer = (Successes(k - 1) % Len(writers)) + 1
            /\ (\A k \in 1..Len(log) : log[k].kind = "Ok") =>
                    \A j \in 1..Len(writers) :
                        LET mine == SelectSeq([k \in 1..Len(log) |-> k],
                                              LAMBDA k : ((k - 1) % Len(writers)) + 1 = j)
                        IN  IF mine = <<>> THEN writers[j] = Writer_new
                            ELSE writers[j].write =
                                    Joined([x \in 1..Len(mine) |-> log[mine[x]].sentence]))
    /\ [][(Len(log') = Len(log) + 1 /\ log'[Len(log')].kind # "Ok") =>
            NextWriter(fold') = NextWriter(fold)]_vars

\* C16 witness: with two writers, the first and the third sentence have gone
\* to the first writer and the second one to the second writer.
C16_Witness ==
    /\ Len(writers) = 2 /\ Len(log) = 3
    /\ \A k \in 1..3 : log[k].kind = "Ok" /\ log[k].sentence # <<>>
    /\ log[1].sentence # log[2].sentence /\ log[1].sentence # log[3].sentence
    /\ <<log[1].writer, log[2].writer, log[3].writer>> = <<1, 2, 1>>

\* The maximal runs of lines that are not blank, in order.
RECURSIVE Groups(_, _)
Groups(lines, run) ==
    IF lines = <<>> THEN (IF run = <<>> THEN <<>> ELSE <<run>>)
    ELSE IF Head(lines) = Blank
    THEN (IF run = <<>> THEN <<>> ELSE <<run>>) \o Groups(Tail(lines), <<>>)
    ELSE Groups(Tail(lines), Append(run, Head(lines)))

\* The text with the same runs and a single blank line between one run and the
\* next, none before the first and none after the last.
RECURSIVE SingleBlank(_)
SingleBlank(groups) ==
    IF groups = <<>> THEN <<Blank>>
    ELSE IF Len(groups) = 1 THEN groups[1]
    ELSE groups[1] \o <<Blank>> \o SingleBlank(Tail(groups))

Canonical(text) == SingleBlank(Groups(text, <<>>))

\* What a caller gets that reads the lines to the end: the sentences before
\* the first None (with at most fuel calls).
RECURSIVE ReadAll(_, _)
ReadAll(lines, fuel) ==
    LET r == read_sentence(lines)
    IN  IF fuel = 0 \/ r.result.kind # "Ok" \/ r.result.sentence = None THEN <<>>
        ELSE <<Unwrap(r.result.sentence)>> \o ReadAll(r.read, fuel - 1)

\* The sentences returned so far.
SentencesRead ==
    LET some == SelectSeq(results, LAMBDA r : r.kind = "Ok" /\ r.sentence # None)
    IN  [k \in 1..Len(some) |-> Unwrap(some[k].sentence)]

\* C17: a run of blank lines separates like one blank line: the sentences read
\* from a source are those read from the source with single blank lines, one
\* sentence per run of lines, a token per line; read_sentence never returns a
\* sentence without tokens; and it returns None when the source has no line
\* left but blank ones, then and from then on.
C17_BlankRuns ==
    /\ [](input # None =>
            /\ \A k \in 1..Len(results) : results[k] # Ok(Some(<<>>))
            /\ \A k \in 1..Len(results) : \A x \in 1..Len(results) :
                    (k < x /\ results[k] = Ok(None)) => results[x] = Ok(None)
            /\ (results # <<>> /\ results[Len(results)] = Ok(None)
                    /\ \A k \in 1..Len(results) : results[k].kind = "Ok") =>
                 LET groups == Groups(Unwrap(input), <<>>)
                 IN  /\ SentencesRead = ReadAll(Reader_new(Canonical(Unwrap(input))), Len(groups) + 1)
                     /\ Len(SentencesRead) = Len(groups)
                     /\ \A k \in 1..Len(groups) : Len(SentencesRead[k]) = Len(groups[k]))
    /\ [][(input # None /\ results' # results /\ \A k \in 1..Len(read) : read[k] = Blank) =>
            results'[Len(results')] = Ok(None)]_vars

\* C17 witness: a source that starts with a blank line and has two blank lines
\* between its two lines has been read to the end: two sentences, then None.
C17_Witness ==
    /\ input = Some(<<Blank, TEST_FRAGMENT[1], Blank, Blank, TEST_FRAGMENT[2]>>)
    /\ Len(results) = 3
    /\ results[3] = Ok(None)
    /\ Len(SentencesRead) = 2

\* C18: the Features values compare equal exactly when their maps from key to
\* optional value are equal, whatever the order of the pieces of the raw
\* strings: "a|b:c" equals "b:c|a" and does not equal "b|a:c".
C18_MapEquality ==
    compared # None =>
        Unwrap(compared) = (as_map_eager(Unwrap(lhs)) = as_map_eager(Unwrap(rhs)))

\* C19: a sentence with one token or more, written in the tabular format by a
\* Writer and read back, is returned by the first read_sentence, equal in
\* every field.
C19_RoundTrip ==
    (/\ Len(writers) = 1 /\ Len(log) = 1 /\ log[1].kind = "Ok" /\ log[1].sentence # <<>>
     /\ input # None /\ results # <<>>) =>
        results[1] = Ok(Some(log[1].sentence))

\* ------------------------------------------- claims on the reattachment
\* A step of the loop of deprojectivize that reattaches a token: the token, the
\* parent it had, and the head it gets.
ReattachStep == pc = "deprojectivize" /\ Len(reattached') = Len(reattached) + 1
Reattached == reattached'[Len(reattached')]
OldParent == InEdge(graph, Reattached).source
NewHead == InEdge(graph', Reattached).source

\* The part of a label before its first '|', and the part after it.
LabelPrefix(label) == <<Head(label)>>
LabelSuffix(label) == Tail(label)

\* C21: whenever deprojectivize reattaches an encoded token c to h*, the edge
\* entering h* is labelled, in the graph with the labels cut to their prefix,
\* with the part of c's encoded label after its first '|'; h* has an incoming
\* edge, so it is not node 0.
C21_PreferredLabel ==
    [][ReattachStep =>
        /\ Cardinality(InEdges(graph', Reattached)) = 1
        /\ NewHead # 0
        /\ NewHead \in 1..Len(sentence)
        /\ Cardinality(InEdges(graph, NewHead)) = 1
        /\ LabelSuffix(Unwrap(sentence[Reattached].head_rel)) # <<>>
        /\ InEdge(graph, NewHead).weight = LabelSuffix(Unwrap(sentence[Reattached].head_rel))
        /\ LabelPrefix(Unwrap(sentence[NewHead].head_rel))
                = LabelSuffix(Unwrap(sentence[Reattached].head_rel))]_vars

\* C21 witness: in the loop of deprojectivize a token has been reattached to a
\* node other than the parent it came with, while another node, nearer to
\* node 0, has an incoming edge with another label.
C21_Witness ==
    /\ pc = "deprojectivize" /\ reattached # <<>>
    /\ LET c == reattached[Len(reattached)]
           h == InEdge(graph, c).source
       IN  /\ sentence[c].head # Some(h)
           /\ \E x \in 1..Len(sentence) :
                /\ x # c /\ InEdges(graph, x) # {}
                /\ InEdge(graph, x).weight # InEdge(graph, h).weight
                /\ GraphDepth(graph, x, Len(sentence)) < GraphDepth(graph, h, Len(sentence))

\* C22: whenever deprojectivize reattaches a token c to h*, h* is not c and is
\* not reachable from c in the graph of that moment; when the sentence
\* deprojectivize is called with is a tree rooted at node 0, the graph is such
\* a tree after every reattachment and so is the sentence returned.
C22_NoCycle ==
    /\ [][ReattachStep =>
            /\ NewHead # Reattached
            /\ NewHead \notin ReachableFrom(graph, {Reattached})]_vars
    /\ []((pc = "deprojectivize" /\ IsTree(sentence)) => GraphIsTree(graph, Len(sentence)))
    /\ []((Returned("deprojectivize") /\ IsTree(sentence)) =>
            result.kind = "Ok" /\ IsTree(result.sentence))

\* C22 witness: in the loop of deprojectivize on a tree, a token has been
\* reattached that has a descendant whose incoming edge carries the label the
\* token prefers.
C22_Witness ==
    /\ pc = "deprojectivize" /\ IsTree(sentence) /\ reattached # <<>>
    /\ LET c == reattached[Len(reattached)]
       IN  \E d \in ReachableFrom(graph, {c}) \ {c} :
                InEdge(graph, d).weight = head_labels[c]

\* Number of edges from node p down to node t, following the incoming edges
\* upwards from t (fuel + 1 when p is not found within fuel steps).
RECURSIVE DepthBelow(_, _, _, _)
DepthBelow(g, p, t, fuel) ==
    IF t = p THEN 0
    ELSE IF fuel = 0 \/ InEdges(g, t) = {} THEN fuel + 1
    ELSE 1 + DepthBelow(g, p, InEdge(g, t).source, fuel - 1)

\* The nodes of g strictly below node p.
ProperDescendants(g, p) ==
    ReachableFrom(g, {g.edges[k].target : k \in {x \in 1..Len(g.edges) : g.edges[x].source = p}})

\* Node x is a possible new head for token c in graph g below the parent p of
\* c: it is below p, the edge entering it has the label c prefers (R1), and it
\* is neither c nor below c (R2).
Candidate(g, c, p, x) ==
    /\ x \in ProperDescendants(g, p)
    /\ InEdges(g, x) # {} /\ InEdge(g, x).weight = head_labels[c]
    /\ x \notin ReachableFrom(g, {c})

\* C23: whenever deprojectivize reattaches a token c whose parent is p_cur, the
\* head h* it gets is strictly below p_cur and outside the subtree of c, and no
\* node below p_cur with the preferred label and outside the subtree of c is
\* nearer to p_cur than h*.
C23_BelowCurrentParent ==
    [][ReattachStep =>
        /\ NewHead \in ProperDescendants(graph, OldParent)
        /\ NewHead \notin ReachableFrom(graph, {Reattached})
        /\ \A x \in 1..(graph.node_count - 1) :
                Candidate(graph, Reattached, OldParent, x) =>
                    DepthBelow(graph, OldParent, NewHead, graph.node_count)
                        <= DepthBelow(graph, OldParent, x, graph.node_count)]_vars

\* The position of x in the sequence s (0 when x is not in s).
Position(s, x) == IF \E i \in 1..Len(s) : s[i] = x
                  THEN CHOOSE i \in 1..Len(s) : s[i] = x /\ \A k \in 1..(i - 1) : s[k] # x
                  ELSE 0

\* The order in which the walk from node 0 over g without node c meets the
\* nodes.
TraversalOrder(g, c) ==
    LET view == [n \in 0..(g.node_count - 1) |->
                    IF n = c THEN <<>>
                    ELSE LET out == SelectSeq(g.edges, LAMBDA e : e.source = n /\ e.target # c)
                         IN  [i \in 1..Len(out) |-> out[Len(out) + 1 - i].target]]
        items == BfsWithDepth_iter(BfsWithDepth_new(0), view)
    IN  [i \in 1..Len(items) |-> items[i][1]]

\* Node x has the label token c prefers on its incoming edge (R1) and is
\* neither c nor below c (R2), and it is as deep in g as node h.
RivalOf(g, c, h, x) ==
    /\ InEdges(g, x) # {} /\ InEdge(g, x).weight = head_labels[c]
    /\ x \notin ReachableFrom(g, {c})
    /\ GraphDepth(g, x, g.node_count) = GraphDepth(g, h, g.node_count)

\* C24: whenever deprojectivize reattaches a token c whose parent is p_cur to
\* h*, no node of the depth of h* that satisfies R1 and R2 is nearer to p_cur
\* by index than h*, and those as near as h* come after h* in the traversal.
C24_ClosestCandidate ==
    [][ReattachStep =>
        \A x \in 1..(graph.node_count - 1) :
            (x # NewHead /\ RivalOf(graph, Reattached, NewHead, x)) =>
                /\ Dist(NewHead, OldParent) <= Dist(x, OldParent)
                /\ Dist(NewHead, OldParent) = Dist(x, OldParent) =>
                        Position(TraversalOrder(graph, Reattached), NewHead)
                            < Position(TraversalOrder(graph, Reattached), x)]_vars

\* C24 witness: a token has been reattached to one of two nodes of the same
\* depth that carry the label it prefers and are as far from its parent.
C24_Witness ==
    /\ pc = "deprojectivize" /\ sentence = TIE_SENTENCE /\ reattached = <<4>>
    /\ InEdge(graph, 4).source \in {1, 3}
    /\ Dist(1, 2) = Dist(3, 2)
    /\ InEdge(graph, 1).weight = head_labels[4] /\ InEdge(graph, 3).weight = head_labels[4]

\* The tokens of the sentence deprojectivize was called with whose label is
\* encoded.
EncodedTokens ==
    {c \in 1..Len(sentence) :
        sentence[c].head # None /\ sentence[c].head_rel # None
            /\ Len(Unwrap(sentence[c].head_rel)) > 1}

\* C25: in the loop of deprojectivize a reattached token leaves the list of
\* the tokens to reattach and its head does not change again, so a token is
\* reattached at most once; a pass reattaches one listed token or ends the
\* loop; the number of passes is at most the number of encoded tokens plus
\* one; and the tokens left in the list are returned with the heads they had.
C25_AtMostOnce ==
    /\ [][ReattachStep =>
            /\ Reattached \in Range(lifted_sorted) \ Range(reattached)
            /\ Reattached \notin Range(lifted_sorted')
            /\ Range(lifted_sorted') = Range(lifted_sorted) \ {Reattached}
            /\ Len(lifted_sorted') = Len(lifted_sorted) - 1
            /\ \A t \in 1..Len(sentence) : t # Reattached =>
                    {graph.edges[k] : k \in InEdges(graph, t)}
                        = {graph'.edges[k] : k \in InEdges(graph', t)}]_vars
    /\ [][pc = "deprojectivize" => (ReattachStep \/ pc' = "returned")]_vars
    /\ [][(pc = "deprojectivize" /\ pc' = "returned") =>
            /\ reattached' = reattached
            /\ result'.kind = "Ok"
            /\ \A t \in Range(reattached) \cup Range(lifted_sorted) :
                    result'.sentence[t].head = Some(InEdge(graph, t).source)
            /\ \A t \in Range(lifted_sorted) :
                    result'.sentence[t].head = sentence[t].head]_vars
    /\ [](pc = "deprojectivize" =>
            /\ Range(reattached) \cap Range(lifted_sorted) = {}
            /\ Range(reattached) \cup Range(lifted_sorted) \subseteq EncodedTokens
            /\ Cardinality(Range(reattached)) = Len(reattached)
            /\ Cardinality(Range(lifted_sorted)) = Len(lifted_sorted)
            /\ Len(reattached) + 1 <= Cardinality(EncodedTokens) + 1)

\* C25 witness: deprojectivize has returned for a sentence with two encoded
\* tokens or more: a pass reattached one of them, and in the last pass the
\* tokens left in the list found no attachment point.
C25_Witness ==
    /\ Returned("deprojectivize") /\ result.kind = "Ok"
    /\ Cardinality(EncodedTokens) >= 2
    /\ Len(reattached) >= 1
    /\ lifted_sorted # <<>>
    /\ Len(reattached) + Len(lifted_sorted) = Cardinality(EncodedTokens)

\* ------------------------------------------------- claims on the walker
\* The nodes of g at most d edges away from node s.
RECURSIVE WithinDist(_, _, _)
WithinDist(g, s, d) ==
    IF d = 0 THEN {s}
    ELSE LET near == WithinDist(g, s, d - 1)
         IN  near \cup {g.edges[k].target :
                            k \in {x \in 1..Len(g.edges) : g.edges[x].source \in near}}

\* The number of edges of a shortest path from s to a node t reachable from s.
ShortestDist(g, s, t) ==
    CHOOSE d \in 0..g.node_count :
        t \in WithinDist(g, s, d) /\ (d = 0 \/ t \notin WithinDist(g, s, d - 1))

\* The (node, depth) pairs the calls of next have returned so far.
Visited ==
    LET some == SelectSeq(visits, LAMBDA v : v # None)
    IN  [k \in 1..Len(some) |-> Unwrap(some[k])]

\* C26: on any directed graph and from any start node s of it, the calls of
\* BfsWithDepth::next return (s, 0) first, no node twice, only nodes reachable
\* from s, each with the length of a shortest path from s, in non-decreasing
\* depth; None is returned when every reachable node has been returned, and
\* from then on; on the graph of the test the visits are those the test
\* lists.
C26_BfsWithDepth ==
    bfs_graph # EmptyGraph =>
        LET reach == ReachableFrom(bfs_graph, {bfs_start})
        IN  /\ visits # <<>> => visits[1] = Some(<<bfs_start, 0>>)
            /\ \A k \in 1..Len(Visited) :
                    /\ Visited[k][1] \in reach
                    /\ Visited[k][2] = ShortestDist(bfs_graph, bfs_start, Visited[k][1])
            /\ \A a \in 1..Len(Visited) : \A b \in 1..Len(Visited) :
                    a < b => Visited[a][1] # Visited[b][1] /\ Visited[a][2] <= Visited[b][2]
            /\ \A a \in 1..Len(visits) : \A b \in 1..Len(visits) :
                    (a < b /\ visits[a] = None) => visits[b] = None
            /\ (\E k \in 1..Len(visits) : visits[k] = None) =>
                    {Visited[k][1] : k \in 1..Len(Visited)} = reach
            /\ (bfs_graph = GRAPH_DEPTH_4 /\ bfs_start = 0 /\ Len(visits) > Len(Visited)) =>
                    Visited = GRAPH_DEPTH_4_BFS_WITH_DEPTH

\* C26 witness: the walk from node 0 over the graph with the cycle, the
\* shared successors and the unreachable node has come to its end and next
\* has returned None twice.
C26_Witness ==
    /\ bfs_graph = GRAPH_SHARED_CYCLE /\ bfs_start = 0
    /\ Len(Visited) = 5
    /\ Len(visits) = 7
    /\ \E k \in 1..Len(Visited) : Visited[k] = <<3, 3>>

\* ------------------------------------------ claims on the graph and labels
\* The tokens of s that have a head.
WithHead(s) == {i \in 1..Len(s) : s[i].head # None}

\* C27: for every sentence of n tokens on which sentence_to_graph succeeds,
\* the graph has the n + 1 nodes 0..n, one edge h -> i labelled with the head
\* label of token i for every token i with head h, and no other edge.
C27_GraphOfSentence ==
    (pc = "projectivize" /\ lifts = <<>>) =>
        /\ graph = sentence_to_graph(sentence).graph
        /\ graph.node_count = Len(sentence) + 1
        /\ Len(graph.edges) = Cardinality(WithHead(sentence))
        /\ \A i \in WithHead(sentence) :
                /\ Cardinality(InEdges(graph, i)) = 1
                /\ InEdge(graph, i).source = Unwrap(sentence[i].head)
                /\ InEdge(graph, i).weight = Unwrap(sentence[i].head_rel)
        /\ \A k \in 1..Len(graph.edges) : graph.edges[k].target \in WithHead(sentence)

\* The nodes above node t in g, following the incoming edges for at most fuel
\* steps.
RECURSIVE GraphAncestors(_, _, _)
GraphAncestors(g, t, fuel) ==
    IF fuel = 0 \/ InEdges(g, t) = {} THEN {}
    ELSE {InEdge(g, t).source} \cup GraphAncestors(g, InEdge(g, t).source, fuel - 1)

\* The nodes above token t in the tree sentence s.
SentenceAncestors(s, t) == {a \in 0..Len(s) : a # t /\ OnHeadChain(s, a, t, Len(s))}

\* The graph whose edges are the heads and head labels of the sentence s.
GraphOf(s) ==
    [node_count |-> Len(s) + 1,
     edges |-> [i \in 1..Len(s) |->
                  [source |-> Unwrap(s[i].head), target |-> i, weight |-> Unwrap(s[i].head_rel)]]]

\* In g every token of the tree sentence s has as its head the head it has in
\* s or a node above that head in s, the nodes above it in g are nodes above
\* it in s, and the tokens outside moved have the head and the label of s.
HeadsOnlyRise(g, s, moved) ==
    \A t \in 1..Len(s) :
        /\ Cardinality(InEdges(g, t)) = 1
        /\ OnHeadChain(s, InEdge(g, t).source, Unwrap(s[t].head), Len(s))
        /\ GraphAncestors(g, t, Len(s)) \subseteq SentenceAncestors(s, t)
        /\ t \notin moved =>
                /\ InEdge(g, t).source = Unwrap(s[t].head)
                /\ InEdge(g, t).weight = Unwrap(s[t].head_rel)

\* C28: for a tree rooted at node 0, in every graph of the loop of
\* projectivize and in the sentence it returns, the head of every token is
\* its head in the input or a proper ancestor of that head in the input, the
\* ancestors of every token are ancestors of it in the input, and a token that
\* was not lifted has the head and the head label of the input.
C28_HeadsOnlyRise ==
    /\ (pc = "projectivize" /\ IsTree(sentence)) =>
            HeadsOnlyRise(graph, sentence, Range(lifts))
    /\ (Returned("projectivize") /\ IsTree(sentence)) =>
            /\ result.kind = "Ok" /\ IsTree(result.sentence)
            /\ HeadsOnlyRise(GraphOf(result.sentence), sentence, Range(lifts))

\* C28 witness: projectivize has returned for a tree in which one token was
\* lifted twice, to the parent of the parent of its head, and another token
\* once, while a third token kept its head.
C28_Witness ==
    /\ Returned("projectivize") /\ IsTree(sentence) /\ result.kind = "Ok"
    /\ \E t \in Range(lifts) :
            /\ Cardinality({k \in 1..Len(lifts) : lifts[k] = t}) = 2
            /\ result.sentence[t].head # sentence[t].head
            /\ result.sentence[t].head # sentence[Unwrap(sentence[t].head)].head
    /\ \E t \in 1..Len(sentence) : t \notin Range(lifts) /\ sentence[t].head # Some(0)

\* The head labels of the sentence s.
HeadLabels(s) == {Unwrap(s[i].head_rel) : i \in {k \in 1..Len(s) : s[k].head_rel # None}}

\* projectivize has returned a sentence for a tree rooted at node 0 whose head
\* labels contain no '|'.
ProjectivizedPlainTree ==
    /\ Returned("projectivize") /\ IsTree(sentence) /\ NoSeparator(sentence)
    /\ result.kind = "Ok"

\* C29 as claimed: for a tree whose head labels contain no '|', every head
\* label of the result of projectivize contains at most one '|', and the part
\* after it is a head label of the input.
C29_AtMostOneSeparator ==
    ProjectivizedPlainTree =>
        \A i \in 1..Len(sentence) :
            LET label == Unwrap(result.sentence[i].head_rel)
            IN  /\ Len(label) <= 2
                /\ Len(label) = 2 => LabelSuffix(label) \in HeadLabels(sentence)

\* C29 amended: for a tree whose head labels contain no '|', a token that was
\* not lifted has its input label in the result of projectivize, and a lifted
\* token has its input label followed by '|' and the label its input head
\* carried when the token was first lifted: the input label of the head, or,
\* when the head was lifted before the token, the encoded label of the head,
\* which makes a label with more than one '|'.  Every '|'-separated piece of
\* every label is a head label of the input.
C29_LabelOfHeadAtFirstLift ==
    ProjectivizedPlainTree =>
        \A i \in 1..Len(sentence) :
            LET label == Unwrap(result.sentence[i].head_rel)
                p == Unwrap(sentence[i].head)
            IN  /\ \A k \in 1..Len(label) : <<label[k]>> \in HeadLabels(sentence)
                /\ i \notin Range(lifts) => label = Unwrap(sentence[i].head_rel)
                /\ i \in Range(lifts) =>
                        /\ p \in 1..Len(sentence)
                        /\ label = Unwrap(sentence[i].head_rel) \o
                                (IF p \in Range(lifts) /\ Position(lifts, p) < Position(lifts, i)
                                 THEN Unwrap(result.sentence[p].head_rel)
                                 ELSE Unwrap(sentence[p].head_rel))

\* C29 witness: projectivize has returned for a tree without '|' in which a
\* token was lifted after its head had been lifted: its label has two '|'.
\* Another token was lifted before its head was.
C29_Witness ==
    /\ ProjectivizedPlainTree
    /\ \E i \in Range(lifts) :
            /\ Len(Unwrap(result.sentence[i].head_rel)) = 3
            /\ Unwrap(sentence[i].head) \in Range(lifts)

\* deprojectivize has returned a sentence.
Deprojectivized == Returned("deprojectivize") /\ result.kind = "Ok"

\* C30 as claimed: when deprojectivize succeeds, no head label of the returned
\* sentence contains '|': a label that had one is replaced by its part before
\* the first '|', a label without '|' is unchanged.
C30_NoSeparatorLeft ==
    Deprojectivized =>
        \A i \in 1..Len(sentence) :
            /\ result.sentence[i].head_rel # None => Len(Unwrap(result.sentence[i].head_rel)) = 1
            /\ sentence[i].head_rel # None =>
                    result.sentence[i].head_rel = Some(LabelPrefix(Unwrap(sentence[i].head_rel)))

\* C30 amended: when deprojectivize succeeds, the head label of every token
\* that has a head is the input label cut before its first '|', whether the
\* token was reattached or not, and is the input label when that has no '|';
\* a token without a head is returned as it is, its head label with every
\* '|' it has.
C30_EdgeLabelsCut ==
    Deprojectivized =>
        \A i \in 1..Len(sentence) :
            IF sentence[i].head # None
            THEN /\ sentence[i].head_rel # None
                 /\ result.sentence[i].head_rel = Some(LabelPrefix(Unwrap(sentence[i].head_rel)))
                 /\ Len(Unwrap(result.sentence[i].head_rel)) = 1
            ELSE result.sentence[i] = sentence[i]

\* C30 witness: deprojectivize has returned a sentence for an input with a
\* reattached token, a token left stuck, and a token without a head whose
\* label is encoded.
C30_Witness ==
    /\ Deprojectivized
    /\ reattached # <<>>
    /\ \E c \in 1..Len(sentence) : Stuck(c)
    /\ \E i \in 1..Len(sentence) :
            /\ sentence[i].head = None /\ sentence[i].head_rel # None
            /\ Len(Unwrap(sentence[i].head_rel)) = 2

====
